---- MODULE Spec2Model ----
(***************************************************************************)
(* The weekly price grid of agridashboard.py: AgriDashboard                *)
(* .create_weekly_price_table builds a year x 48-column table from the     *)
(* records of one crop, and .apply_color_coding_to_table classifies its    *)
(* cells by percentile.                                                    *)
(*                                                                         *)
(* Numbers.  Prices are integers.  A float the code computes (a mean, a    *)
(* fitted value, a percentile) is an exact rational [n |-> , d |-> ] with  *)
(* d > 0; round(x, 0) on a numpy float is round-half-to-even.  NaN is the  *)
(* empty tuple and a float cell that holds v is <<v>>.                     *)
(*                                                                         *)
(* Random source.  np.random.normal is the process-wide generator: a draw  *)
(* is a function of the generator state, and the state advances by one per *)
(* draw.  rng is that state; the draws it yields cycle through Normal003.  *)
(***************************************************************************)
EXTENDS Integers, Sequences, FiniteSets, TLC

VARIABLES
    df,           \* the records handed to create_weekly_price_table (crop_df)
    price_type,   \* 'Modal_Price' | 'Min_Price' | 'Max_Price'
    rng,          \* state of the global numpy generator
    pc,           \* position in run_dashboard's table section
    i,            \* index into years of the interpolation loop (line 154)
    years,        \* sorted(df_work['Year'].unique()), line 99
    price_table,  \* the local price_table of create_weekly_price_table
    kind,         \* per year: the branch of lines 160-191 that ran
    variation,    \* per year and position: the draw of line 181, or NaN
    grid,         \* the table create_weekly_price_table returned
    styled,       \* the Styler apply_color_coding_to_table returned
    csv_data,     \* the text handed to st.download_button, line 430
    extrapolate_data, \* the 'Extrapolate Missing Weeks' checkbox, line 354
    csv_file,     \* a market file as pd.read_csv returned it, line 68
    loaded,       \* market_data, available_markets, market_crops, lines 55-57
    session_state,    \* st.session_state: its keys and their values
    load_calls,   \* the calls of load_market_data made at line 284
    runs,         \* the runs of the script in the session, this one included
    builds,       \* the tables shown in earlier runs, with their inputs
    refs,         \* the frame object each of market_df, crop_df, df_work names
    heap,         \* the columns of each frame object
    commodity_metrics,  \* top25.py: one row per commodity, lines 173-191
    top_crops,          \* top25.py: the ranked rows, line 227
    report,             \* top25.py: the lines written at 315-316
    excel_files,        \* trend_calc.py: the files found at line 56
    file_no,            \* trend_calc.py: position of the loop of line 68
    sheet_no,           \* trend_calc.py: position of the loop of line 85
    total_charts,       \* trend_calc.py, line 65
    processing_errors,  \* trend_calc.py, line 66
    saved_charts,       \* trend_calc.py: the sheets whose chart was saved
    result              \* trend_calc.py: the value returned at line 135

table_vars == <<df, price_type, rng, i, years, price_table, kind, variation,
                grid, styled, csv_data, extrapolate_data>>

session_vars == <<session_state, load_calls, runs, builds>>

object_vars == <<refs, heap>>

top25_vars == <<commodity_metrics, top_crops, report>>

chart_vars == <<excel_files, file_no, sheet_no, total_charts,
                processing_errors, saved_charts, result>>

vars == <<df, price_type, rng, pc, i, years, price_table, kind, variation,
          grid, styled, csv_data, extrapolate_data, csv_file, loaded,
          session_state, load_calls, runs, builds, refs, heap,
          commodity_metrics, top_crops, report,
          excel_files, file_no, sheet_no, total_charts, processing_errors,
          saved_charts, result>>

-----------------------------------------------------------------------------
(* Bounds of the model *)

MaxRecs == 6

\* the records of a run in which the checkbox takes either value
MaxToggleRecs == 3

\* the rows of a market file
MaxFileRows == 3

NumSeeds == 2

\* the records of a run on dates around the turn of a year
MaxBoundaryRecs == 4

\* the runs of the script in a session
MaxRuns == 3

\* the commodities of an analysis
MaxCrops == 5

\* the Excel files of a chart run
MaxFiles == 2

-----------------------------------------------------------------------------
(* Arithmetic *)

Abs(x) == IF x < 0 THEN -x ELSE x

Max0(x) == IF x > 0 THEN x ELSE 0

RECURSIVE Gcd(_, _)
Gcd(a, b) == IF b = 0 THEN Abs(a) ELSE Gcd(b, a % Abs(b))

Rat(n, d) == LET g == Gcd(n, d) IN [n |-> n \div g, d |-> d \div g]

RatAdd(a, b) ==
    LET g == Gcd(a.d, b.d)
    IN  Rat(a.n * (b.d \div g) + b.n * (a.d \div g), a.d * (b.d \div g))

\* round(whole + n/d, 0) of a numpy float: to the nearest integer, a tie to
\* the even one
RoundMixed(whole, n, d) ==
    LET q == whole + n \div d
        r == n % d
    IN  IF 2 * r < d THEN q
        ELSE IF 2 * r > d THEN q + 1
        ELSE IF q % 2 = 0 THEN q ELSE q + 1

RoundHalfEven(n, d) == RoundMixed(0, n, d)

RECURSIVE SumSeq(_)
SumSeq(s) == IF s = <<>> THEN 0 ELSE Head(s) + SumSeq(Tail(s))

RECURSIVE SortedSeq(_)
SortedSeq(S) ==
    IF S = {} THEN <<>>
    ELSE LET m == CHOOSE x \in S : \A y \in S : x <= y
         IN  <<m>> \o SortedSeq(S \ {m})

-----------------------------------------------------------------------------
(* Dates: Arrival_Date is a calendar date [y, m, d] *)

IsLeap(y) == (y % 4 = 0 /\ y % 100 # 0) \/ y % 400 = 0

DaysBeforeMonth(y, m) ==
    LET cum == <<0, 31, 59, 90, 120, 151, 181, 212, 243, 273, 304, 334>>
    IN  cum[m] + (IF m > 2 /\ IsLeap(y) THEN 1 ELSE 0)

DayOfYear(date) == DaysBeforeMonth(date.y, date.m) + date.d

\* Monday = 1 .. Sunday = 7
IsoWeekday(date) ==
    LET p   == date.y - 1
        ord == 365 * p + p \div 4 - p \div 100 + p \div 400 + DayOfYear(date)
    IN  ((ord - 1) % 7) + 1

WeeksInIsoYear(y) ==
    LET P(z) == (z + z \div 4 - z \div 100 + z \div 400) % 7
    IN  IF P(y) = 4 \/ P(y - 1) = 3 THEN 53 ELSE 52

\* Arrival_Date.dt.isocalendar().week
IsoWeek(date) ==
    LET w == (DayOfYear(date) - IsoWeekday(date) + 10) \div 7
    IN  IF w < 1 THEN WeeksInIsoYear(date.y - 1)
        ELSE IF w = 53 /\ WeeksInIsoYear(date.y) = 52 THEN 1
        ELSE w

\* the ISO year of a date: Arrival_Date.dt.isocalendar().year
IsoYear(date) ==
    LET w == (DayOfYear(date) - IsoWeekday(date) + 10) \div 7
    IN  IF w < 1 THEN date.y - 1
        ELSE IF w = 53 /\ WeeksInIsoYear(date.y) = 52 THEN date.y + 1
        ELSE date.y

\* DfWork with Year taken from the ISO calendar
DfWorkIsoYear(d) ==
    [k \in DOMAIN d |->
        [Year         |-> IsoYear(d[k].Arrival_Date),
         Month        |-> d[k].Arrival_Date.m,
         Week_of_Year |-> IsoWeek(d[k].Arrival_Date),
         Min_Price    |-> d[k].Min_Price,
         Max_Price    |-> d[k].Max_Price,
         Modal_Price  |-> d[k].Modal_Price]]

\* df_work: the copy of df with Year, Month and Week_of_Year added
DfWork(d) ==
    [k \in DOMAIN d |->
        [Year         |-> d[k].Arrival_Date.y,
         Month        |-> d[k].Arrival_Date.m,
         Week_of_Year |-> IsoWeek(d[k].Arrival_Date),
         Min_Price    |-> d[k].Min_Price,
         Max_Price    |-> d[k].Max_Price,
         Modal_Price  |-> d[k].Modal_Price]]

Price(r, pt) ==
    CASE pt = "Modal_Price" -> r.Modal_Price
      [] pt = "Min_Price"   -> r.Min_Price
      [] pt = "Max_Price"   -> r.Max_Price

-----------------------------------------------------------------------------
(* The column structure *)

\* list(range(a, b))
PyRange(a, b) == [k \in 1..(b - a) |-> a + k - 1]

weeks_per_month ==
    << PyRange(1, 6),   PyRange(5, 10),  PyRange(9, 14),  PyRange(13, 18),
       PyRange(17, 22), PyRange(21, 27), PyRange(26, 31), PyRange(30, 35),
       PyRange(34, 40), PyRange(39, 44), PyRange(43, 48), PyRange(47, 53) >>

month_names ==
    <<"Jan", "Feb", "Mar", "Apr", "May", "Jun",
      "Jul", "Aug", "Sep", "Oct", "Nov", "Dec">>

\* month_weeks[:4]
WeeksShown == 4

\* month_weeks without the [:4]: every week of the month's window
MonthWeeksWhole(m) == weeks_per_month[m]

MonthWeeksShown(m) ==
    SubSeq(weeks_per_month[m], 1,
           IF Len(weeks_per_month[m]) < WeeksShown
           THEN Len(weeks_per_month[m]) ELSE WeeksShown)

RECURSIVE ColumnsFrom(_)
ColumnsFrom(m) ==
    IF m > Len(month_names) THEN <<>>
    ELSE [k \in 1..Len(MonthWeeksShown(m)) |->
             [name |-> month_names[m] \o "_W" \o ToString(k),
              week |-> MonthWeeksShown(m)[k]]]
         \o ColumnsFrom(m + 1)

\* the (col_name, week_num) pairs the loops of lines 124-127 and 136-140 visit
ColumnWeeks == ColumnsFrom(1)

columns == [k \in DOMAIN ColumnWeeks |-> ColumnWeeks[k].name]

\* positions of a row: all_positions, 0-based
Positions == 0 .. (Len(columns) - 1)


-----------------------------------------------------------------------------
(* Frames: a DataFrame is [index, columns, data], data[label][position] *)

NaN == <<>>

RangeOf(s) == {s[k] : k \in DOMAIN s}

\* pd.DataFrame(index=pd.Index(years, name='Year'), columns=columns)
NewFrame(idx, cols) ==
    [index   |-> idx,
     columns |-> cols,
     data    |-> [y \in RangeOf(idx) |-> [p \in 0 .. (Len(cols) - 1) |-> NaN]]]

\* DataFrame.empty, were it to look at the columns alone
IsEmptyFrameNoColumns(f) == Len(f.columns) = 0

\* DataFrame.empty
IsEmptyFrame(f) == Len(f.index) = 0 \/ Len(f.columns) = 0

\* YearsOf without the unique(): one entry per record
YearsOfEveryRecord(df_work) ==
    SortSeq([k \in DOMAIN df_work |-> df_work[k].Year], LAMBDA a, b : a < b)

\* sorted(df_work['Year'].unique())
YearsOf(df_work) == SortedSeq({df_work[k].Year : k \in DOMAIN df_work})

\* year_data[year_data['Week_of_Year'] == week_num][price_type]
WeekData(df_work, year, week_num, pt) ==
    LET sel == SelectSeq(df_work,
                         LAMBDA r : r.Year = year /\ r.Week_of_Year = week_num)
    IN  [k \in DOMAIN sel |-> Price(sel[k], pt)]

\* FilledCell whose last column also takes every later week of the year
FilledCellLastColumnOpen(df_work, year, p, pt) ==
    LET week_num  == ColumnWeeks[p + 1].week
        sel       == SelectSeq(df_work, LAMBDA r :
                         /\ r.Year = year
                         /\ IF p + 1 = Len(ColumnWeeks)
                            THEN r.Week_of_Year >= week_num
                            ELSE r.Week_of_Year = week_num)
        week_data == [k \in DOMAIN sel |-> Price(sel[k], pt)]
    IN  IF week_data # <<>>
        THEN <<RoundHalfEven(SumSeq(week_data), Len(week_data))>>
        ELSE NaN

\* lines 133-151: the cell of (year, position) after the fill loop
FilledCell(df_work, year, p, pt) ==
    LET week_data == WeekData(df_work, year, ColumnWeeks[p + 1].week, pt)
    IN  IF week_data # <<>>
        THEN <<RoundHalfEven(SumSeq(week_data), Len(week_data))>>
        ELSE NaN

-----------------------------------------------------------------------------
(* scipy.interpolate.interp1d(x, y, kind, fill_value='extrapolate') *)

\* Interp1dLinear with the slope taken by integer division
Interp1dLinearIntSlope(xs, ys, p) ==
    LET n    == Len(xs)
        cnt  == Cardinality({k \in 1..n : xs[k] < p})
        lo   == IF cnt < 1 THEN 1 ELSE IF cnt > n - 1 THEN n - 1 ELSE cnt
        hi   == lo + 1
    IN  [n |-> ys[lo] + ((ys[hi] - ys[lo]) \div (xs[hi] - xs[lo])) * (p - xs[lo]),
         d |-> 1]

\* kind='linear': the segment np.searchsorted picks, clipped to 1 .. n-1, and
\* its line also outside [x[0], x[-1]]
Interp1dLinear(xs, ys, p) ==
    LET n    == Len(xs)
        cnt  == Cardinality({k \in 1..n : xs[k] < p})
        hi0  == IF cnt < 1 THEN 1 ELSE IF cnt > n - 1 THEN n - 1 ELSE cnt
        lo   == hi0
        hi   == hi0 + 1
        dx   == xs[hi] - xs[lo]
    IN  Rat(ys[lo] * dx + (ys[hi] - ys[lo]) * (p - xs[lo]), dx)

RECURSIVE ProdOthers(_, _, _, _)
\* the product of (v - xs[j]) over j # skip, j >= k
ProdOthers(xs, v, skip, k) ==
    IF k > Len(xs) THEN 1
    ELSE (IF k = skip THEN 1 ELSE v - xs[k]) * ProdOthers(xs, v, skip, k + 1)

RECURSIVE LagrangeFrom(_, _, _, _)
LagrangeFrom(xs, ys, p, k) ==
    IF k > Len(xs) THEN [n |-> 0, d |-> 1]
    ELSE LET num == ys[k] * ProdOthers(xs, p, k, 1)
             den == ProdOthers(xs, xs[k], k, 1)
             t   == IF den < 0 THEN Rat(-num, -den) ELSE Rat(num, den)
         IN  RatAdd(t, LagrangeFrom(xs, ys, p, k + 1))

\* kind='cubic': the not-a-knot cubic spline; with four samples it has a single
\* piece, the cubic through the four points, and that cubic also extrapolates
Interp1dCubic(xs, ys, p) == LagrangeFrom(xs, ys, p, 1)

\* Interp1d without fill_value='extrapolate': outside the samples the value of
\* the nearest sample
Interp1dClamped(xs, ys, knd, p) ==
    IF p < xs[1] THEN [n |-> ys[1], d |-> 1]
    ELSE IF p > xs[Len(xs)] THEN [n |-> ys[Len(xs)], d |-> 1]
    ELSE IF knd = "cubic" THEN Interp1dCubic(xs, ys, p)
    ELSE Interp1dLinear(xs, ys, p)

Interp1d(xs, ys, knd, p) ==
    IF knd = "cubic" THEN Interp1dCubic(xs, ys, p) ELSE Interp1dLinear(xs, ys, p)

-----------------------------------------------------------------------------
(* np.random.normal(0, 0.03): the draws the generator cycles through *)

Normal003 ==
    << [n |-> 1, d |-> 20], [n |-> -1, d |-> 100],
       [n |-> -1, d |-> 25], [n |-> 0, d |-> 1] >>

\* the k-th draw (k = 0, 1, ..) made from generator state g
Draw(g, k) == Normal003[((g + k) % Len(Normal003)) + 1]

Advance(g, k) == (g + k) % Len(Normal003)


-----------------------------------------------------------------------------
(* Lines 154-191: the interpolation of one year row *)

\* the positions of year_prices.dropna().index, in column order
ValidPositions(row) ==
    SelectSeq([k \in 1 .. Cardinality(DOMAIN row) |-> k - 1],
              LAMBDA p : row[p] # NaN)

\* FitKind with the threshold off by one
FitKindFromThree(n) == IF n >= 3 THEN "cubic" ELSE "linear"

\* 'cubic' if len(valid_values) >= 4 else 'linear'
FitKind(n) == IF n >= 4 THEN "cubic" ELSE "linear"

\* AdjustedCell without the max(0, .)
AdjustedCellNoFloor(value, v) ==
    LET a == v.d + v.n
        M == value.d * v.d
        q == value.n \div M
        r == value.n % M
    IN  RoundMixed(q * a, r * a, M)

\* max(0, round(value * (1 + variation), 0)); value * (1 + variation) is
\* value.n * a / (value.d * b) with 1 + variation = a / b
AdjustedCell(value, v) ==
    LET a == v.d + v.n
        M == value.d * v.d
        q == value.n \div M
        r == value.n % M
    IN  Max0(RoundMixed(q * a, r * a, M))

\* the number of draws made before position p is reached: one per position
\* below p that is not a valid one
DrawsBefore(valid_positions, p) ==
    p - Cardinality({k \in DOMAIN valid_positions : valid_positions[k] < p})

\* InterpolatedRow without the pd.isna test of line 179: every cell of the row
\* is replaced by the jittered fitted value
InterpolatedRowNoIsnaTest(row, g) ==
    LET valid_positions == ValidPositions(row)
        valid_values    == [k \in DOMAIN valid_positions |->
                               row[valid_positions[k]][1]]
        knd             == FitKind(Len(valid_values))
    IN  [p \in DOMAIN row |->
            <<AdjustedCell(Interp1d(valid_positions, valid_values, knd, p),
                           Draw(g, p))>>]

\* lines 162-186, len(valid_indices) >= 2
InterpolatedRow(row, g) ==
    LET valid_positions == ValidPositions(row)
        valid_values    == [k \in DOMAIN valid_positions |->
                               row[valid_positions[k]][1]]
        knd             == FitKind(Len(valid_values))
    IN  [p \in DOMAIN row |->
            IF row[p] = NaN
            THEN <<AdjustedCell(Interp1d(valid_positions, valid_values, knd, p),
                                Draw(g, DrawsBefore(valid_positions, p)))>>
            ELSE <<RoundHalfEven(row[p][1], 1)>>]

\* fillna(method='ffill'): a NaN takes the last valid value before it
Ffill(row) ==
    LET valid == ValidPositions(row)
    IN  [p \in DOMAIN row |->
            LET k == Cardinality({j \in DOMAIN valid : valid[j] <= p})
            IN  IF k = 0 THEN NaN ELSE row[valid[k]]]

\* fillna(method='bfill'): a NaN takes the next valid value after it
Bfill(row) ==
    LET valid == ValidPositions(row)
    IN  [p \in DOMAIN row |->
            LET k == Cardinality({j \in DOMAIN valid : valid[j] < p})
            IN  IF k = Len(valid) THEN NaN ELSE row[valid[k + 1]]]

\* FilledRow with the forward fill alone
FilledRowFfillOnly(row) ==
    LET filled == Ffill(row)
    IN  [p \in DOMAIN row |->
            IF filled[p] = NaN THEN NaN ELSE <<RoundHalfEven(filled[p][1], 1)>>]

\* lines 190-191, len(valid_indices) == 1
FilledRow(row) ==
    LET filled == Bfill(Ffill(row))
    IN  [p \in DOMAIN row |->
            IF filled[p] = NaN THEN NaN ELSE <<RoundHalfEven(filled[p][1], 1)>>]

\* the row of price_table after the loop body ran for it
YearRow(row, g) ==
    LET n == Len(ValidPositions(row))
    IN  IF n >= 2 THEN InterpolatedRow(row, g)
        ELSE IF n = 1 THEN FilledRow(row)
        ELSE row

\* which branch the loop body takes, and with which kind of fit
YearBranch(row) ==
    LET n == Len(ValidPositions(row))
    IN  IF n >= 2 THEN FitKind(n) ELSE IF n = 1 THEN "fill" ELSE "none"

\* the draws of line 181 made for the row: one per NaN cell of a fitted row
YearDraws(row, g) ==
    LET valid_positions == ValidPositions(row)
    IN  IF Len(valid_positions) >= 2
        THEN [p \in DOMAIN row |->
                 IF row[p] = NaN
                 THEN <<Draw(g, DrawsBefore(valid_positions, p))>>
                 ELSE NaN]
        ELSE [p \in DOMAIN row |-> NaN]

\* NumDraws were a draw made for every NaN cell of every row
NumDrawsEveryRow(row) == Cardinality({p \in DOMAIN row : row[p] = NaN})

NumDraws(row) ==
    IF Len(ValidPositions(row)) >= 2
    THEN Cardinality({p \in DOMAIN row : row[p] = NaN})
    ELSE 0

\* ReturnedFrame with fillna(method='ffill') before fillna(0): a NaN cell takes
\* the value of the row above it
ReturnedFrameFfillRows(f) ==
    LET idx      == SortSeq(f.index, LAMBDA a, b : a < b)
        Above(y) == {z \in RangeOf(idx) : z < y}
        Last(y)  == CHOOSE z \in Above(y) : \A o \in Above(y) : o <= z
    IN  [index   |-> idx,
         columns |-> f.columns,
         data    |-> [y \in DOMAIN f.data |->
                        [p \in DOMAIN f.data[y] |->
                            IF f.data[y][p] # NaN THEN f.data[y][p][1]
                            ELSE IF Above(y) # {} /\ f.data[Last(y)][p] # NaN
                                 THEN f.data[Last(y)][p][1]
                                 ELSE 0]]]

\* lines 194-195: fillna(0).astype(int), sort_index()
ReturnedFrame(f) ==
    [index   |-> SortSeq(f.index, LAMBDA a, b : a < b),
     columns |-> f.columns,
     data    |-> [y \in DOMAIN f.data |->
                    [p \in DOMAIN f.data[y] |->
                        IF f.data[y][p] = NaN THEN 0 ELSE f.data[y][p][1]]]]


-----------------------------------------------------------------------------
(* Lines 199-235: apply_color_coding_to_table *)

FrameCells(f) == RangeOf(f.index) \X (0 .. (Len(f.columns) - 1))

CellValue(f, c) == f.data[c[1]][c[2]]

\* df.values.flatten(): the cells row by row
Flatten(f) ==
    LET w == Len(f.columns)
    IN  [k \in 1 .. (Len(f.index) * w) |->
            f.data[f.index[((k - 1) \div w) + 1]][(k - 1) % w]]

\* all_values[all_values > 0]
PositiveValues(f) == SelectSeq(Flatten(f), LAMBDA v : v > 0)

\* np.percentile(a, q, method='higher'): sorted[ceil(h)]
PercentileHigher(a, q) ==
    LET sorted == SortSeq(a, LAMBDA x, y : x < y)
        h      == (Len(a) - 1) * q
        hi     == IF h % 100 = 0 THEN h \div 100 ELSE (h \div 100) + 1
    IN  [n |-> 100 * sorted[hi + 1], d |-> 100]

\* np.percentile(a, q), default linear method: with h = (n-1)*q/100,
\* sorted[floor(h)] + frac(h) * (sorted[floor(h)+1] - sorted[floor(h)])
Percentile(a, q) ==
    LET sorted == SortSeq(a, LAMBDA x, y : x < y)
        n      == Len(a)
        h      == (n - 1) * q
        lo     == h \div 100
        hi     == IF lo + 1 > n - 1 THEN n - 1 ELSE lo + 1
    IN  [n |-> 100 * sorted[lo + 1]
               + (h % 100) * (sorted[hi + 1] - sorted[lo + 1]),
         d |-> 100]

\* val <= threshold
LeqRat(val, t) == val * t.d <= t.n

\* ColorCodeCell with the test of the 75th percentile made first
ColorCodeCellMediumFirst(val, low, medium_low, medium_high, high) ==
    IF val = 0 THEN "no-data"
    ELSE IF LeqRat(val, medium_high) THEN "medium"
    ELSE IF LeqRat(val, low) THEN "very-low"
    ELSE IF LeqRat(val, medium_low) THEN "low"
    ELSE IF LeqRat(val, high) THEN "high"
    ELSE "very-high"

\* ColorCodeCell with exclusive upper bounds
ColorCodeCellExclusive(val, low, medium_low, medium_high, high) ==
    IF val = 0 THEN "no-data"
    ELSE IF val * low.d < low.n THEN "very-low"
    ELSE IF val * medium_low.d < medium_low.n THEN "low"
    ELSE IF val * medium_high.d < medium_high.n THEN "medium"
    ELSE IF val * high.d < high.n THEN "high"
    ELSE "very-high"

\* color_code_cell; a bucket stands for its CSS string
ColorCodeCell(val, low, medium_low, medium_high, high) ==
    IF val = 0 THEN "no-data"
    ELSE IF LeqRat(val, low) THEN "very-low"
    ELSE IF LeqRat(val, medium_low) THEN "low"
    ELSE IF LeqRat(val, medium_high) THEN "medium"
    ELSE IF LeqRat(val, high) THEN "high"
    ELSE "very-high"

\* f'{int(x)}' if x > 0 else '-'
FormatCell(x) == IF x > 0 THEN ToString(x) ELSE "-"

\* the Styler: per cell its CSS bucket ("" when no style was applied) and the
\* text it displays
ApplyColorCodingToTable(f) ==
    IF Len(PositiveValues(f)) = 0
    THEN [css  |-> [c \in FrameCells(f) |-> ""],
          text |-> [c \in FrameCells(f) |-> ToString(CellValue(f, c))]]
    ELSE LET all_values            == PositiveValues(f)
             low_threshold         == Percentile(all_values, 25)
             medium_low_threshold  == Percentile(all_values, 50)
             medium_high_threshold == Percentile(all_values, 75)
             high_threshold        == Percentile(all_values, 90)
         IN  [css  |-> [c \in FrameCells(f) |->
                          ColorCodeCell(CellValue(f, c), low_threshold,
                                        medium_low_threshold,
                                        medium_high_threshold, high_threshold)],
              text |-> [c \in FrameCells(f) |-> FormatCell(CellValue(f, c))]]

-----------------------------------------------------------------------------
(* The download, lines 428-430.  A text field is the sequence of its tokens: *)
(* a label is written as it is, one token, and an integer as its decimal     *)
(* characters.  No field holds a comma, a quote or a line break, so a line   *)
(* is the sequence of its fields and the text the sequence of its lines.     *)

DecimalChars == <<"0", "1", "2", "3", "4", "5", "6", "7", "8", "9">>

RECURSIVE NatChars(_)
NatChars(n) ==
    IF n < 10 THEN <<DecimalChars[n + 1]>>
    ELSE NatChars(n \div 10) \o <<DecimalChars[(n % 10) + 1]>>

\* str(n) of an integer
IntChars(n) == IF n < 0 THEN <<"-">> \o NatChars(-n) ELSE NatChars(n)

\* price_table.reset_index(): the index has no name, so the column that
\* receives it is named 'index'
ResetIndex(f) ==
    [columns |-> <<"index">> \o f.columns,
     rows    |-> <<>> \o
                 [k \in 1 .. Len(f.index) |->
                    <<f.index[k]>> \o
                    [p \in 1 .. Len(f.columns) |-> f.data[f.index[k]][p - 1]]]]

\* download_df.to_csv(index=False): the header line, then a line per row
ToCsv(d) ==
    [header |-> <<>> \o [k \in DOMAIN d.columns |-> <<d.columns[k]>>],
     rows   |-> <<>> \o
                [r \in DOMAIN d.rows |->
                   <<>> \o [k \in DOMAIN d.rows[r] |-> IntChars(d.rows[r][k])]]]

NoCsv == [header |-> <<>>, rows |-> <<>>]

-----------------------------------------------------------------------------
(* Inputs: the rows of one crop in a market file, in date order *)

PriceA == [Min_Price |-> 90,  Max_Price |-> 110, Modal_Price |-> 100]
PriceB == [Min_Price |-> -3,  Max_Price |-> 181, Modal_Price |-> 141]
PriceC == [Min_Price |-> 130, Max_Price |-> 150, Modal_Price |-> 140]

Row(y, m, d, prices) ==
    [Arrival_Date |-> [y |-> y, m |-> m, d |-> d],
     Min_Price    |-> prices.Min_Price,
     Max_Price    |-> prices.Max_Price,
     Modal_Price  |-> prices.Modal_Price]

SourceRows ==
    << Row(2020, 1, 2, PriceA),    \* ISO week 1
       Row(2020, 1, 3, PriceB),    \* ISO week 1
       Row(2020, 1, 8, PriceA),    \* ISO week 2
       Row(2020, 1, 15, PriceB),   \* ISO week 3
       Row(2020, 1, 29, PriceA),   \* ISO week 5
       Row(2020, 12, 30, PriceB),  \* ISO week 53
       Row(2023, 1, 4, PriceA),    \* ISO week 1
       Row(2023, 3, 8, PriceC),    \* ISO week 10
       Row(2023, 6, 21, PriceA) >> \* ISO week 25

\* rows whose calendar year and ISO year differ, beside rows of the same years
BoundaryRows ==
    << Row(2019, 1, 2, PriceA),    \* ISO week 1 of 2019
       Row(2019, 6, 5, PriceC),    \* ISO week 23
       Row(2019, 12, 30, PriceB),  \* ISO week 1 of ISO year 2020
       Row(2021, 1, 1, PriceA),    \* ISO week 53 of ISO year 2020
       Row(2021, 1, 13, PriceC),   \* ISO week 2
       Row(2021, 2, 3, PriceA),    \* ISO week 5
       Row(2023, 1, 1, PriceB) >>  \* ISO week 52 of ISO year 2022

RECURSIVE Pick(_, _, _)
\* the rows of s at the indices in I, from index k on, in their order in s
Pick(s, I, k) ==
    IF k > Len(s) THEN <<>>
    ELSE (IF k \in I THEN <<s[k]>> ELSE <<>>) \o Pick(s, I, k + 1)

PriceTypes == {"Modal_Price", "Min_Price", "Max_Price"}

NoFrame == [index |-> <<>>, columns |-> <<>>, data |-> <<>>]

NoStyler == [css |-> <<>>, text |-> <<>>]

-----------------------------------------------------------------------------
(* load_market_data, lines 68-82, on one market file.  A field of a row that *)
(* read_csv found is <<value>> and a blank field is NaN.  The text of a date *)
(* field either parses to a date or does not.  row is the label read_csv     *)
(* gives the row, its position in the file, which dropna and sort_values     *)
(* carry along.                                                              *)

RequiredColumns ==
    {"Arrival_Date", "Commodity", "Min_Price", "Max_Price", "Modal_Price"}

DateText(y, m, d) == [parses |-> TRUE, y |-> y, m |-> m, d |-> d]

BadDateText == [parses |-> FALSE, y |-> 0, m |-> 0, d |-> 0]

FileRow(date, crop, min, max, modal) ==
    [Arrival_Date |-> date, Commodity |-> crop,
     Min_Price |-> min, Max_Price |-> max, Modal_Price |-> modal]

\* the kinds of row a market file is made of
FileRowKinds ==
    << FileRow(<<DateText(2020, 1, 8)>>, <<"Wheat">>, <<90>>, <<110>>, <<100>>),
       FileRow(<<DateText(2020, 1, 2)>>, <<"Wheat">>, <<90>>, <<110>>, <<100>>),
       FileRow(<<DateText(2020, 1, 2)>>, <<"Rice">>, <<130>>, <<150>>, <<140>>),
       FileRow(<<BadDateText>>, <<"Wheat">>, <<90>>, <<110>>, <<100>>),
       FileRow(<<DateText(2020, 1, 2)>>, <<"Wheat">>, NaN, <<110>>, <<100>>),
       FileRow(<<DateText(2020, 1, 8)>>, <<"Wheat">>, <<90>>, NaN, <<100>>),
       FileRow(<<DateText(2020, 1, 2)>>, <<"Wheat">>, <<90>>, <<110>>, NaN),
       FileRow(<<DateText(2020, 1, 8)>>, NaN, <<90>>, <<110>>, <<100>>),
       FileRow(NaN, <<"Rice">>, <<130>>, <<150>>, <<140>>) >>

\* line 73, pd.to_datetime(errors='coerce'): text that does not parse, and
\* a blank field, become NaT
ToDatetime(cell) ==
    IF Len(cell) = 0 THEN NaN
    ELSE IF cell[1].parses
         THEN <<[y |-> cell[1].y, m |-> cell[1].m, d |-> cell[1].d]>>
         ELSE NaN

Coerced(rows) ==
    <<>> \o [k \in DOMAIN rows |->
               [rows[k] EXCEPT !.Arrival_Date = ToDatetime(@)]]

\* dropna on the date alone
DroppedNaDateOnly(rows) ==
    SelectSeq(rows, LAMBDA r : r.Arrival_Date # NaN)

\* line 74, dropna(subset=[date and the three prices])
DroppedNa(rows) ==
    SelectSeq(rows, LAMBDA r :
        /\ r.Arrival_Date # NaN
        /\ r.Min_Price # NaN
        /\ r.Max_Price # NaN
        /\ r.Modal_Price # NaN)

DateKey(r) ==
    (r.Arrival_Date[1].y * 10000) + (r.Arrival_Date[1].m * 100)
        + r.Arrival_Date[1].d

Permuted(rows, f) == <<>> \o [k \in DOMAIN rows |-> rows[f[k]]]

Orderings(rows) ==
    {Permuted(rows, f) : f \in {g \in [DOMAIN rows -> DOMAIN rows] :
                                    \A a, b \in DOMAIN rows :
                                        g[a] = g[b] => a = b}}

\* sort_values, were it to leave the rows as they are
SortValuesNoSort(rows) == {rows}

\* line 75, sort_values('Arrival_Date') with its default kind 'quicksort',
\* which is not a stable sort: the outcome is ascending by date, with rows
\* of equal dates in any order
SortValues(rows) ==
    {o \in Orderings(rows) :
        \A k \in 1 .. (Len(o) - 1) : DateKey(o[k]) <= DateKey(o[k + 1])}

\* df['Commodity'].unique()
UniqueCrops(rows) == {rows[k].Commodity : k \in DOMAIN rows}

\* sorted() compares a NaN, which is a float, with a str: TypeError
SortedRaises(crops) == NaN \in crops /\ crops # {NaN}

CropOrder == << <<"Rice">>, <<"Wheat">> >>

\* line 79, sorted(df['Commodity'].unique()) when it does not raise
SortedCrops(crops) ==
    IF crops = {NaN} THEN <<NaN>>
    ELSE SelectSeq(CropOrder, LAMBDA c : c \in crops)

MarketName == "Market"

NoFile == [columns |-> {}, rows |-> <<>>]

NothingLoaded ==
    [market_data |-> <<>>, available_markets |-> <<>>, market_crops |-> <<>>]

-----------------------------------------------------------------------------
(* Frame objects.  A DataFrame is an object: a name denotes one, and the     *)
(* assignment of a column changes the object in place, for every name that   *)
(* denotes it.  An object is known by the place that made it, and heap gives *)
(* the columns of each object that exists.                                   *)

NoObject == "none"

\* market_df[market_df['Commodity'] == selected_crop], line 328: boolean
\* indexing makes a new frame
Selection(obj) == "selection"

\* .copy(), were it to hand back the object it is called on
CopyOfAlias(obj, made) == obj

\* .copy(), lines 93 and 328: a new frame, known by the place that made it
CopyOf(obj, made) == made

\* the columns assigned at lines 94-96
WorkColumns == {"Year", "Month", "Week_of_Year"}

NoRefs == [market_df |-> NoObject, crop_df |-> NoObject, df_work |-> NoObject]

NoObjects == refs = NoRefs /\ heap = <<>>

\* the objects of a run that starts with crop_df in hand
TableObjects ==
    /\ refs = [NoRefs EXCEPT !.crop_df = "crop_copy"]
    /\ heap = ("crop_copy" :> RequiredColumns)

-----------------------------------------------------------------------------
(* The parts of the state a specification leaves aside *)

\* st.session_state before AgriDashboard.__init__ ran: no key
NoSessionState == <<>>

SessionIdle ==
    /\ session_state = NoSessionState
    /\ load_calls = 0
    /\ runs = 0
    /\ builds = <<>>

NoReport == [average |-> NaN, highest |-> NaN]

Top25Idle ==
    /\ commodity_metrics = <<>>
    /\ top_crops = <<>>
    /\ report = NoReport

ChartsIdle ==
    /\ excel_files = <<>>
    /\ file_no = 0
    /\ sheet_no = 0
    /\ total_charts = 0
    /\ processing_errors = <<>>
    /\ saved_charts = {}
    /\ result = NaN

-----------------------------------------------------------------------------
(* The call of create_weekly_price_table *)

\* lines 383-393: the call made when the checkbox is off, were its third
\* argument left out, so that price_type takes its default of line 89
TableCallDefaultPriceWhenOff(extrapolate, crop_df, pt) ==
    IF extrapolate
    THEN [df |-> crop_df, price_type |-> pt]
    ELSE [df |-> crop_df, price_type |-> "Modal_Price"]

\* lines 383-393: the arguments of the call to create_weekly_price_table in
\* the branch the checkbox selects
TableCall(extrapolate, crop_df, pt) ==
    IF extrapolate
    THEN [df |-> crop_df, price_type |-> pt]
    ELSE [df |-> crop_df, price_type |-> pt]

-----------------------------------------------------------------------------
(* The state machine: one call of create_weekly_price_table on the cleaned   *)
(* records of a crop and the handling of its result, as in run_dashboard,    *)
(* lines 326-442.  run_dashboard makes the call only when crop_df is not     *)
(* empty (line 330) and otherwise takes WarnNoCrop; the method itself        *)
(* accepts any record set, the empty one included.  Spec starts with the     *)
(* checkbox at its default, SpecToggle with either value.                    *)

Init ==
    /\ \E I \in SUBSET (DOMAIN SourceRows) :
          /\ Cardinality(I) <= MaxRecs
          /\ df = Pick(SourceRows, I, 1)
    /\ price_type \in PriceTypes
    /\ rng \in 0 .. (NumSeeds - 1)
    /\ pc = "start"
    /\ i = 0
    /\ years = <<>>
    /\ price_table = NoFrame
    /\ kind = <<>>
    /\ variation = <<>>
    /\ grid = NoFrame
    /\ styled = NoStyler
    /\ csv_data = NoCsv
    /\ extrapolate_data = TRUE
    /\ csv_file = NoFile
    /\ loaded = NothingLoaded
    /\ SessionIdle
    /\ TableObjects
    /\ Top25Idle
    /\ ChartsIdle

\* run_dashboard, lines 330 and 441-442: no record of the crop, a warning
WarnNoCrop ==
    /\ pc = "start"
    /\ df = <<>>
    /\ pc' = "nocrop"
    /\ UNCHANGED <<df, price_type, rng, i, years, price_table, kind, variation,
                   grid, styled, csv_data, extrapolate_data, csv_file, loaded>>
    /\ UNCHANGED <<session_vars, object_vars, top25_vars, chart_vars>>

\* lines 383-393 and create_weekly_price_table, lines 93-151: the call and
\* the table of the observed means
FillTable ==
    /\ pc = "start"
    /\ LET call    == TableCall(extrapolate_data, df, price_type)
           df_work == DfWork(call.df)
           yrs     == YearsOf(df_work)
       IN  /\ years' = yrs
           /\ price_table' =
                 [NewFrame(yrs, columns) EXCEPT
                     !.data = [y \in RangeOf(yrs) |->
                                 [p \in Positions |->
                                     FilledCell(df_work, y, p,
                                                call.price_type)]]]
           /\ kind' = [y \in RangeOf(yrs) |-> "pending"]
           /\ variation' = [y \in RangeOf(yrs) |-> [p \in Positions |-> NaN]]
    /\ LET target == CopyOf(refs.crop_df, "work_copy")
       IN  /\ refs' = [refs EXCEPT !.df_work = target]
           /\ heap' = (target :> (heap[refs.crop_df] \cup WorkColumns)) @@ heap
    /\ i' = 1
    /\ pc' = "interp"
    /\ UNCHANGED <<df, price_type, rng, grid, styled, csv_data,
                   extrapolate_data, csv_file, loaded>>
    /\ UNCHANGED <<session_vars, top25_vars, chart_vars>>

\* create_weekly_price_table, lines 154-191: one pass of the loop over years
InterpolateYear ==
    /\ pc = "interp"
    /\ i <= Len(years)
    /\ LET year        == years[i]
           year_prices == price_table.data[year]
       IN  /\ price_table' =
                 [price_table EXCEPT !.data[year] = YearRow(year_prices, rng)]
           /\ kind' = [kind EXCEPT ![year] = YearBranch(year_prices)]
           /\ variation' =
                 [variation EXCEPT ![year] = YearDraws(year_prices, rng)]
           /\ rng' = Advance(rng, NumDraws(year_prices))
    /\ i' = i + 1
    /\ UNCHANGED <<df, price_type, pc, years, grid, styled, csv_data,
                   extrapolate_data, csv_file, loaded>>
    /\ UNCHANGED <<session_vars, object_vars, top25_vars, chart_vars>>

\* create_weekly_price_table, lines 193-197: the table it returns
ReturnTable ==
    /\ pc = "interp"
    /\ i > Len(years)
    /\ grid' = ReturnedFrame(price_table)
    /\ pc' = "table"
    /\ UNCHANGED <<df, price_type, rng, i, years, price_table, kind, variation,
                   styled, csv_data, extrapolate_data, csv_file, loaded>>
    /\ UNCHANGED <<session_vars, object_vars, top25_vars, chart_vars>>

\* run_dashboard, lines 395-436: a table that is not empty is styled, shown
\* and offered for download
ShowTable ==
    /\ pc = "table"
    /\ ~IsEmptyFrame(grid)
    /\ styled' = ApplyColorCodingToTable(grid)
    /\ csv_data' = ToCsv(ResetIndex(grid))
    /\ pc' = "shown"
    /\ UNCHANGED <<df, price_type, rng, i, years, price_table, kind, variation,
                   grid, extrapolate_data, csv_file, loaded>>
    /\ UNCHANGED <<session_vars, object_vars, top25_vars, chart_vars>>

\* run_dashboard, lines 438-439: an empty table is reported
WarnNoTable ==
    /\ pc = "table"
    /\ IsEmptyFrame(grid)
    /\ pc' = "warned"
    /\ UNCHANGED <<df, price_type, rng, i, years, price_table, kind, variation,
                   grid, styled, csv_data, extrapolate_data, csv_file, loaded>>
    /\ UNCHANGED <<session_vars, object_vars, top25_vars, chart_vars>>

Next ==
    \/ WarnNoCrop
    \/ FillTable
    \/ InterpolateYear
    \/ ReturnTable
    \/ ShowTable
    \/ WarnNoTable

Spec == Init /\ [][Next]_vars

\* a run in which the user has set the checkbox of lines 354-358 either way
InitToggle ==
    /\ \E I \in SUBSET (DOMAIN SourceRows) :
          /\ Cardinality(I) <= MaxToggleRecs
          /\ df = Pick(SourceRows, I, 1)
    /\ price_type \in PriceTypes
    /\ rng \in 0 .. (NumSeeds - 1)
    /\ extrapolate_data \in BOOLEAN
    /\ pc = "start"
    /\ i = 0
    /\ years = <<>>
    /\ price_table = NoFrame
    /\ kind = <<>>
    /\ variation = <<>>
    /\ grid = NoFrame
    /\ styled = NoStyler
    /\ csv_data = NoCsv
    /\ csv_file = NoFile
    /\ loaded = NothingLoaded
    /\ SessionIdle
    /\ TableObjects
    /\ Top25Idle
    /\ ChartsIdle

SpecToggle == InitToggle /\ [][Next]_vars

\* a run on the records of a crop dated around the turn of a year
InitBoundary ==
    /\ \E I \in SUBSET (DOMAIN BoundaryRows) :
          /\ Cardinality(I) <= MaxBoundaryRecs
          /\ df = Pick(BoundaryRows, I, 1)
    /\ price_type \in PriceTypes
    /\ rng \in 0 .. (NumSeeds - 1)
    /\ extrapolate_data = TRUE
    /\ pc = "start"
    /\ i = 0
    /\ years = <<>>
    /\ price_table = NoFrame
    /\ kind = <<>>
    /\ variation = <<>>
    /\ grid = NoFrame
    /\ styled = NoStyler
    /\ csv_data = NoCsv
    /\ csv_file = NoFile
    /\ loaded = NothingLoaded
    /\ SessionIdle
    /\ TableObjects
    /\ Top25Idle
    /\ ChartsIdle

SpecBoundary == InitBoundary /\ [][Next]_vars

-----------------------------------------------------------------------------
(* load_market_data on one market file, lines 68-82 *)

\* a file has the five columns or lacks Commodity, and then no row has one
InitLoad ==
    /\ \E n \in 0 .. MaxFileRows :
          \E ks \in [1 .. n -> DOMAIN FileRowKinds] :
              \E cols \in {RequiredColumns, RequiredColumns \ {"Commodity"}} :
                  csv_file =
                      [columns |-> cols,
                       rows    |-> <<>> \o
                           [k \in 1 .. n |->
                               [row          |-> k,
                                Arrival_Date |-> FileRowKinds[ks[k]].Arrival_Date,
                                Commodity    |->
                                    IF "Commodity" \in cols
                                    THEN FileRowKinds[ks[k]].Commodity ELSE NaN,
                                Min_Price    |-> FileRowKinds[ks[k]].Min_Price,
                                Max_Price    |-> FileRowKinds[ks[k]].Max_Price,
                                Modal_Price  |-> FileRowKinds[ks[k]].Modal_Price]]]
    /\ loaded = NothingLoaded
    /\ pc = "read"
    /\ df = <<>>
    /\ price_type = "Modal_Price"
    /\ rng = 0
    /\ i = 0
    /\ years = <<>>
    /\ price_table = NoFrame
    /\ kind = <<>>
    /\ variation = <<>>
    /\ grid = NoFrame
    /\ styled = NoStyler
    /\ csv_data = NoCsv
    /\ extrapolate_data = TRUE
    /\ SessionIdle
    /\ NoObjects
    /\ Top25Idle
    /\ ChartsIdle

\* line 72 false: a file that lacks a required column is passed over
SkipFile ==
    /\ pc = "read"
    /\ ~(RequiredColumns \subseteq csv_file.columns)
    /\ pc' = "skipped"
    /\ UNCHANGED <<csv_file, loaded>>
    /\ UNCHANGED table_vars
    /\ UNCHANGED <<session_vars, object_vars, top25_vars, chart_vars>>

\* lines 72-79 without an exception: the cleaned, sorted rows are stored,
\* the market is listed and its crops are stored
LoadFile ==
    /\ pc = "read"
    /\ RequiredColumns \subseteq csv_file.columns
    /\ \E sorted \in SortValues(DroppedNa(Coerced(csv_file.rows))) :
          /\ ~SortedRaises(UniqueCrops(sorted))
          /\ loaded' =
                [market_data       |-> (MarketName :> sorted),
                 available_markets |-> <<MarketName>>,
                 market_crops      |->
                     (MarketName :> SortedCrops(UniqueCrops(sorted)))]
    /\ heap' = ("stored" :> csv_file.columns) @@ heap
    /\ UNCHANGED refs
    /\ pc' = "loaded"
    /\ UNCHANGED csv_file
    /\ UNCHANGED table_vars
    /\ UNCHANGED <<session_vars, top25_vars, chart_vars>>

\* lines 72-82 when sorted() raises at line 79: lines 77 and 78 have run,
\* the exception is caught at line 81 and a warning is shown
LoadFileRaises ==
    /\ pc = "read"
    /\ RequiredColumns \subseteq csv_file.columns
    /\ \E sorted \in SortValues(DroppedNa(Coerced(csv_file.rows))) :
          /\ SortedRaises(UniqueCrops(sorted))
          /\ loaded' =
                [market_data       |-> (MarketName :> sorted),
                 available_markets |-> <<MarketName>>,
                 market_crops      |-> <<>>]
    /\ heap' = ("stored" :> csv_file.columns) @@ heap
    /\ UNCHANGED refs
    /\ pc' = "load_warned"
    /\ UNCHANGED csv_file
    /\ UNCHANGED table_vars
    /\ UNCHANGED <<session_vars, top25_vars, chart_vars>>

NextLoad ==
    \/ SkipFile
    \/ LoadFile
    \/ LoadFileRaises

SpecLoad == InitLoad /\ [][NextLoad]_vars

-----------------------------------------------------------------------------
(* A session: the script runs again on every interaction, main() builds a    *)
(* new AgriDashboard and calls run_dashboard, and st.session_state and the   *)
(* process-wide random generator live on from one run to the next.           *)

\* __init__, were it to set the four keys on every construction
InitSessionStateAlways(s) ==
    [data_loaded       |-> FALSE,
     market_data       |-> <<>>,
     available_markets |-> <<>>,
     market_crops      |-> <<>>]

\* __init__, lines 46-50: the four keys are set when data_loaded is not a key
InitSessionState(s) ==
    IF "data_loaded" \notin DOMAIN s
    THEN [data_loaded       |-> FALSE,
          market_data       |-> <<>>,
          available_markets |-> <<>>,
          market_crops      |-> <<>>]
    ELSE s

\* the file read_csv returns for the given columns and kinds of row
MarketFile(cols, ks) ==
    [columns |-> cols,
     rows    |-> <<>> \o
         [k \in DOMAIN ks |->
             [row          |-> k,
              Arrival_Date |-> FileRowKinds[ks[k]].Arrival_Date,
              Commodity    |-> IF "Commodity" \in cols
                               THEN FileRowKinds[ks[k]].Commodity ELSE NaN,
              Min_Price    |-> FileRowKinds[ks[k]].Min_Price,
              Max_Price    |-> FileRowKinds[ks[k]].Max_Price,
              Modal_Price  |-> FileRowKinds[ks[k]].Modal_Price]]]

\* the market files a session is run on
SessionFiles ==
    << MarketFile(RequiredColumns \ {"Commodity"}, <<1>>),
       MarketFile(RequiredColumns, <<>>),
       MarketFile(RequiredColumns, <<1, 2>>),
       MarketFile(RequiredColumns, <<1, 2, 3>>),
       MarketFile(RequiredColumns, <<1, 8>>),
       MarketFile(RequiredColumns, <<8>>),
       MarketFile(RequiredColumns, <<4, 5>>) >>

\* the options of the crop selector: with no option nothing is selected
CropOptions(options) == IF options = <<>> THEN {NaN} ELSE RangeOf(options)

\* line 328: the rows of the market whose Commodity equals the selected crop;
\* nothing equals a missing value
CropDf(rows, crop) ==
    LET sel == SelectSeq(rows, LAMBDA r : crop # NaN /\ r.Commodity = crop)
    IN  <<>> \o [k \in DOMAIN sel |->
                   [Arrival_Date |-> sel[k].Arrival_Date[1],
                    Min_Price    |-> sel[k].Min_Price[1],
                    Max_Price    |-> sel[k].Max_Price[1],
                    Modal_Price  |-> sel[k].Modal_Price[1]]]

RunEnded == pc \in {"stopped", "nocrops", "nocrop", "shown", "warned"}

InitSession ==
    /\ \E f \in DOMAIN SessionFiles : csv_file = SessionFiles[f]
    /\ rng \in 0 .. (NumSeeds - 1)
    /\ pc = "script"
    /\ session_state = NoSessionState
    /\ load_calls = 0
    /\ runs = 1
    /\ builds = <<>>
    /\ loaded = NothingLoaded
    /\ NoObjects
    /\ df = <<>>
    /\ price_type = "Modal_Price"
    /\ i = 0
    /\ years = <<>>
    /\ price_table = NoFrame
    /\ kind = <<>>
    /\ variation = <<>>
    /\ grid = NoFrame
    /\ styled = NoStyler
    /\ csv_data = NoCsv
    /\ extrapolate_data = TRUE
    /\ Top25Idle
    /\ ChartsIdle

\* main, line 458, and __init__, lines 45-50
Construct ==
    /\ pc = "script"
    /\ session_state' = InitSessionState(session_state)
    /\ pc' = "run"
    /\ UNCHANGED <<load_calls, runs, builds, csv_file, loaded>>
    /\ UNCHANGED table_vars
    /\ UNCHANGED <<object_vars, top25_vars, chart_vars>>

\* lines 283-284: data_loaded is False and load_market_data is called
CallLoad ==
    /\ pc = "run"
    /\ ~session_state.data_loaded
    /\ load_calls' = load_calls + 1
    /\ loaded' = NothingLoaded
    /\ pc' = "read"
    /\ UNCHANGED <<session_state, runs, builds, csv_file>>
    /\ UNCHANGED table_vars
    /\ UNCHANGED <<object_vars, top25_vars, chart_vars>>

\* lines 285-288: what load_market_data returned is stored in the session
StoreLoaded ==
    /\ pc \in {"skipped", "loaded", "load_warned"}
    /\ session_state' =
          [data_loaded       |-> TRUE,
           market_data       |-> loaded.market_data,
           available_markets |-> loaded.available_markets,
           market_crops      |-> loaded.market_crops]
    /\ pc' = "markets"
    /\ UNCHANGED <<load_calls, runs, builds, csv_file, loaded>>
    /\ UNCHANGED table_vars
    /\ UNCHANGED <<object_vars, top25_vars, chart_vars>>

\* line 283 false: the data of the session is used as it is
SkipLoad ==
    /\ pc = "run"
    /\ session_state.data_loaded
    /\ pc' = "markets"
    /\ UNCHANGED <<session_state, load_calls, runs, builds, csv_file, loaded>>
    /\ UNCHANGED table_vars
    /\ UNCHANGED <<object_vars, top25_vars, chart_vars>>

\* lines 290-292: no market, an error and st.stop()
StopNoMarkets ==
    /\ pc = "markets"
    /\ session_state.available_markets = <<>>
    /\ pc' = "stopped"
    /\ UNCHANGED <<session_state, load_calls, runs, builds, csv_file, loaded>>
    /\ UNCHANGED table_vars
    /\ UNCHANGED <<object_vars, top25_vars, chart_vars>>

\* lines 299-307 and 444-445: the selected market has no entry in
\* market_crops
WarnNoCrops ==
    /\ pc = "markets"
    /\ \E selected_market \in RangeOf(session_state.available_markets) :
          selected_market \notin DOMAIN session_state.market_crops
    /\ pc' = "nocrops"
    /\ UNCHANGED <<session_state, load_calls, runs, builds, csv_file, loaded>>
    /\ UNCHANGED table_vars
    /\ UNCHANGED <<object_vars, top25_vars, chart_vars>>

\* lines 299-328: a market, a crop and a price type are selected and crop_df
\* is made
SelectCrop ==
    /\ pc = "markets"
    /\ \E selected_market \in RangeOf(session_state.available_markets) :
          /\ selected_market \in DOMAIN session_state.market_crops
          /\ \E selected_crop \in
                    CropOptions(session_state.market_crops[selected_market]) :
                df' = CropDf(session_state.market_data[selected_market],
                             selected_crop)
    /\ price_type' \in PriceTypes
    /\ LET picked  == Selection("stored")
           crop_df == CopyOf(picked, "crop_copy")
       IN  /\ refs' = [refs EXCEPT !.market_df = "stored", !.crop_df = crop_df]
           /\ heap' = (crop_df :> heap["stored"])
                          @@ (picked :> heap["stored"]) @@ heap
    /\ pc' = "start"
    /\ UNCHANGED <<rng, i, years, price_table, kind, variation, grid, styled,
                   csv_data, extrapolate_data, csv_file, loaded>>
    /\ UNCHANGED <<session_vars, top25_vars, chart_vars>>

\* line 330 true: the table is built from a crop_df that is not empty
BuildTable ==
    /\ df # <<>>
    /\ FillTable

\* an interaction: the run is over, its locals are gone, and the script runs
\* again; a table that was shown is remembered with its inputs and draws
Rerun ==
    /\ RunEnded
    /\ runs < MaxRuns
    /\ runs' = runs + 1
    /\ builds' = IF pc = "shown"
                 THEN Append(builds, [df         |-> df,
                                      price_type |-> price_type,
                                      variation  |-> variation,
                                      grid       |-> grid])
                 ELSE builds
    /\ pc' = "script"
    /\ df' = <<>>
    /\ price_type' = "Modal_Price"
    /\ i' = 0
    /\ years' = <<>>
    /\ price_table' = NoFrame
    /\ kind' = <<>>
    /\ variation' = <<>>
    /\ grid' = NoFrame
    /\ styled' = NoStyler
    /\ csv_data' = NoCsv
    /\ refs' = NoRefs
    /\ heap' = [o \in DOMAIN heap \cap {"stored"} |-> heap[o]]
    /\ UNCHANGED <<rng, extrapolate_data, csv_file, loaded, session_state,
                   load_calls>>
    /\ UNCHANGED <<top25_vars, chart_vars>>

NextSession ==
    \/ Construct
    \/ CallLoad
    \/ SkipFile
    \/ LoadFile
    \/ LoadFileRaises
    \/ StoreLoaded
    \/ SkipLoad
    \/ StopNoMarkets
    \/ WarnNoCrops
    \/ SelectCrop
    \/ WarnNoCrop
    \/ BuildTable
    \/ InterpolateYear
    \/ ReturnTable
    \/ ShowTable
    \/ Rerun

SpecSession == InitSession /\ [][NextSession]_vars

-----------------------------------------------------------------------------
(* top25.py: analyze_top_priced_crops_from_excel_directory from the          *)
(* per-commodity metrics on, and the summary of generate_analysis_report     *)

\* the commodities, in the order groupby('Commodity') lists them
CropNames == <<"Apple", "Banana", "Cumin", "Dates", "Garlic", "Ginger">>

\* the metrics of one commodity: average and standard deviation of its modal
\* price, the number of its records, of its markets and of its years
Metric(avg, std, records, markets, yrs) ==
    [Avg_Modal_Price |-> avg,
     Price_Std_Dev   |-> std,
     Total_Records   |-> records,
     Markets_Count   |-> markets,
     Years_Count     |-> yrs]

MetricKinds ==
    << Metric(100, <<10>>, 10, 1, 2),
       Metric(90,  <<9>>,  12, 3, 3),
       Metric(10,  <<1>>,  20, 2, 2),
       Metric(100, <<0>>,  4,  1, 2),
       Metric(90,  NaN,    6,  1, 1) >>

\* line 226: at most this many crops are listed
TopCount == 25

\* lines 203-208: the filter for consistently high-priced crops
HighPricedCrops(metrics) ==
    LET price_75th ==
            Percentile([k \in DOMAIN metrics |-> metrics[k].Avg_Modal_Price], 75)
    IN  SelectSeq(metrics,
            LAMBDA c : /\ c.Avg_Modal_Price * price_75th.d >= price_75th.n
                       /\ c.Markets_Count >= 1
                       /\ c.Years_Count >= 2
                       /\ c.Total_Records >= 5)

\* lines 217-223: Avg * 0.5 + Markets * 100 + Years * 50
\* + (100 - Price_CV.fillna(0)) * 0.2 with Price_CV = Std / Avg * 100, as a
\* fraction over 10 * Avg
ConsistencyScore(c) ==
    LET std == IF c.Price_Std_Dev = NaN THEN 0 ELSE c.Price_Std_Dev[1]
        avg == c.Avg_Modal_Price
    IN  [n |-> 5 * avg * avg + 1000 * c.Markets_Count * avg
               + 500 * c.Years_Count * avg + 2 * (100 * avg - 100 * std),
         d |-> 10 * avg]

GreaterRat(a, b) == a.n * b.d > b.n * a.d

\* line 227: nlargest(n, 'Consistency_Score'), rows of equal score in their
\* order in the frame (keep='first')
NLargest(rows, n) ==
    LET before(j, k) ==
            \/ GreaterRat(ConsistencyScore(rows[j]), ConsistencyScore(rows[k]))
            \/ /\ ~GreaterRat(ConsistencyScore(rows[k]), ConsistencyScore(rows[j]))
               /\ j < k
        place(k) == Cardinality({j \in DOMAIN rows : before(j, k)}) + 1
        ordered  == [p \in DOMAIN rows |->
                        rows[CHOOSE k \in DOMAIN rows : place(k) = p]]
    IN  SubSeq(ordered, 1, n)

Min2(a, b) == IF a < b THEN a ELSE b

InitTop25 ==
    /\ \E n \in 1 .. MaxCrops :
          \E ks \in [1 .. n -> DOMAIN MetricKinds] :
              commodity_metrics =
                  <<>> \o [k \in 1 .. n |->
                             [Commodity |-> CropNames[k]] @@ MetricKinds[ks[k]]]
    /\ top_crops = <<>>
    /\ report = NoReport
    /\ pc = "metrics"
    /\ df = <<>>
    /\ price_type = "Modal_Price"
    /\ rng = 0
    /\ i = 0
    /\ years = <<>>
    /\ price_table = NoFrame
    /\ kind = <<>>
    /\ variation = <<>>
    /\ grid = NoFrame
    /\ styled = NoStyler
    /\ csv_data = NoCsv
    /\ extrapolate_data = TRUE
    /\ csv_file = NoFile
    /\ loaded = NothingLoaded
    /\ SessionIdle
    /\ NoObjects
    /\ ChartsIdle

\* lines 212-214: no crop passes the filter and the analysis returns False
NoCropsMeetCriteria ==
    /\ pc = "metrics"
    /\ HighPricedCrops(commodity_metrics) = <<>>
    /\ pc' = "no_crops"
    /\ UNCHANGED <<top25_vars, csv_file, loaded>>
    /\ UNCHANGED table_vars
    /\ UNCHANGED <<session_vars, object_vars, chart_vars>>

\* lines 216-227: the crops that pass are scored and the best are kept
RankTopCrops ==
    /\ pc = "metrics"
    /\ LET high_priced_crops == HighPricedCrops(commodity_metrics)
           num_crops == Min2(TopCount, Len(high_priced_crops))
       IN  /\ high_priced_crops # <<>>
           /\ top_crops' = NLargest(high_priced_crops, num_crops)
    /\ pc' = "ranked"
    /\ UNCHANGED <<commodity_metrics, report, csv_file, loaded>>
    /\ UNCHANGED table_vars
    /\ UNCHANGED <<session_vars, object_vars, chart_vars>>

\* generate_analysis_report, lines 312-316: the summary lines
WriteReport ==
    /\ pc = "ranked"
    /\ report' =
          [average |-> << Rat(SumSeq([k \in DOMAIN top_crops |->
                                         top_crops[k].Avg_Modal_Price]),
                              Len(top_crops)) >>,
           highest |-> << top_crops[1].Commodity >>]
    /\ pc' = "reported"
    /\ UNCHANGED <<commodity_metrics, top_crops, csv_file, loaded>>
    /\ UNCHANGED table_vars
    /\ UNCHANGED <<session_vars, object_vars, chart_vars>>

NextTop25 ==
    \/ NoCropsMeetCriteria
    \/ RankTopCrops
    \/ WriteReport

SpecTop25 == InitTop25 /\ [][NextTop25]_vars

-----------------------------------------------------------------------------
(* trend_calc.py: create_price_charts_from_excel_files, the loop over the    *)
(* Excel files of the input directory and over the sheets of each            *)

\* what becomes of a sheet: a chart is saved, read_excel raises, a required
\* column is missing, no row has a valid date and prices, or making the chart
\* raises inside create_single_crop_chart
SheetKinds == {"chart", "read_raises", "missing_columns", "no_data", "chart_raises"}

\* the sheets of the files of a run
SheetLists ==
    << <<>>,
       <<"chart">>,
       <<"read_raises">>,
       <<"chart_raises">>,
       <<"chart", "chart">>,
       <<"read_raises", "chart">>,
       <<"missing_columns", "chart">>,
       <<"no_data", "chart">>,
       <<"chart_raises", "chart">>,
       <<"chart", "missing_columns", "chart_raises">> >>

\* a file pd.ExcelFile cannot open, and a file with the given sheets
UnreadableFile == [opens |-> FALSE, sheet_names |-> <<>>]

ExcelFile(sheets) == [opens |-> TRUE, sheet_names |-> sheets]

ErrorMsg(what, file, sheet) == [what |-> what, file |-> file, sheet |-> sheet]

InitCharts ==
    /\ \E n \in 0 .. MaxFiles :
          \E fs \in [1 .. n -> {UnreadableFile}
                                  \cup {ExcelFile(SheetLists[k]) :
                                           k \in DOMAIN SheetLists}] :
              excel_files = <<>> \o fs
    /\ file_no = 0
    /\ sheet_no = 0
    /\ total_charts = 0
    /\ processing_errors = <<>>
    /\ saved_charts = {}
    /\ result = NaN
    /\ pc = "files"
    /\ df = <<>>
    /\ price_type = "Modal_Price"
    /\ rng = 0
    /\ i = 0
    /\ years = <<>>
    /\ price_table = NoFrame
    /\ kind = <<>>
    /\ variation = <<>>
    /\ grid = NoFrame
    /\ styled = NoStyler
    /\ csv_data = NoCsv
    /\ extrapolate_data = TRUE
    /\ csv_file = NoFile
    /\ loaded = NothingLoaded
    /\ SessionIdle
    /\ NoObjects
    /\ Top25Idle

\* lines 56-61: no .xlsx file in the directory, the function returns False
ReturnNoFiles ==
    /\ pc = "files"
    /\ excel_files = <<>>
    /\ result' = <<FALSE>>
    /\ pc' = "charts_done"
    /\ UNCHANGED <<excel_files, file_no, sheet_no, total_charts,
                   processing_errors, saved_charts, csv_file, loaded>>
    /\ UNCHANGED table_vars
    /\ UNCHANGED <<session_vars, object_vars, top25_vars>>

\* lines 67-81: the next file is opened
OpenFile ==
    /\ pc = "files"
    /\ file_no < Len(excel_files)
    /\ excel_files[file_no + 1].opens
    /\ file_no' = file_no + 1
    /\ sheet_no' = 0
    /\ pc' = "sheets"
    /\ UNCHANGED <<excel_files, total_charts, processing_errors, saved_charts,
                   result, csv_file, loaded>>
    /\ UNCHANGED table_vars
    /\ UNCHANGED <<session_vars, object_vars, top25_vars>>

\* lines 72 and 116-120: opening the file raises; the error is appended and
\* the loop goes on with the next file
FileRaises ==
    /\ pc = "files"
    /\ file_no < Len(excel_files)
    /\ ~excel_files[file_no + 1].opens
    /\ processing_errors' =
          Append(processing_errors, ErrorMsg("file", file_no + 1, NaN))
    /\ file_no' = file_no + 1
    /\ UNCHANGED <<excel_files, sheet_no, total_charts, saved_charts, result,
                   pc, csv_file, loaded>>
    /\ UNCHANGED table_vars
    /\ UNCHANGED <<session_vars, object_vars, top25_vars>>

\* lines 85-112: one sheet of the open file
ProcessSheet ==
    /\ pc = "sheets"
    /\ sheet_no < Len(excel_files[file_no].sheet_names)
    /\ LET sheet == excel_files[file_no].sheet_names[sheet_no + 1]
       IN  \/ /\ sheet = "read_raises"
              /\ processing_errors' =
                    Append(processing_errors,
                           ErrorMsg("sheet", file_no, <<sheet_no + 1>>))
              /\ UNCHANGED <<total_charts, saved_charts>>
           \/ /\ sheet = "missing_columns"
              /\ processing_errors' =
                    Append(processing_errors,
                           ErrorMsg("columns", file_no, <<sheet_no + 1>>))
              /\ UNCHANGED <<total_charts, saved_charts>>
           \/ /\ sheet = "chart"
              /\ saved_charts' = saved_charts \cup {<<file_no, sheet_no + 1>>}
              /\ total_charts' = total_charts + 1
              /\ UNCHANGED processing_errors
           \/ /\ sheet \in {"no_data", "chart_raises"}
              /\ UNCHANGED <<total_charts, saved_charts, processing_errors>>
    /\ sheet_no' = sheet_no + 1
    /\ UNCHANGED <<excel_files, file_no, result, pc, csv_file, loaded>>
    /\ UNCHANGED table_vars
    /\ UNCHANGED <<session_vars, object_vars, top25_vars>>

\* line 114: the sheets of the file are done
NextFile ==
    /\ pc = "sheets"
    /\ sheet_no = Len(excel_files[file_no].sheet_names)
    /\ pc' = "files"
    /\ UNCHANGED <<excel_files, file_no, sheet_no, total_charts,
                   processing_errors, saved_charts, result, csv_file, loaded>>
    /\ UNCHANGED table_vars
    /\ UNCHANGED <<session_vars, object_vars, top25_vars>>

\* lines 122-135: the files are done and the function returns total_charts > 0
ReturnCharts ==
    /\ pc = "files"
    /\ excel_files # <<>>
    /\ file_no = Len(excel_files)
    /\ result' = << total_charts > 0 >>
    /\ pc' = "charts_done"
    /\ UNCHANGED <<excel_files, file_no, sheet_no, total_charts,
                   processing_errors, saved_charts, csv_file, loaded>>
    /\ UNCHANGED table_vars
    /\ UNCHANGED <<session_vars, object_vars, top25_vars>>

NextCharts ==
    \/ ReturnNoFiles
    \/ OpenFile
    \/ FileRaises
    \/ ProcessSheet
    \/ NextFile
    \/ ReturnCharts

SpecCharts == InitCharts /\ [][NextCharts]_vars

-----------------------------------------------------------------------------
(* apply_color_coding_to_table on its own: the method is handed a table of   *)
(* one year whose first cells are drawn from ScenarioValues and whose other  *)
(* cells are 0, as lines 395-400 hand it the table that was returned.        *)

ScenarioPositions == 0 .. 4

ScenarioValues == {0, 50, 80, 120, 200, 400}

InitClassify ==
    /\ \E cells \in [ScenarioPositions -> ScenarioValues] :
          grid = [NewFrame(<<2023>>, columns) EXCEPT
                     !.data = [y \in {2023} |->
                                 [p \in Positions |->
                                     IF p \in ScenarioPositions
                                     THEN cells[p] ELSE 0]]]
    /\ pc = "table"
    /\ df = <<>>
    /\ price_type = "Modal_Price"
    /\ rng = 0
    /\ i = 0
    /\ years = <<>>
    /\ price_table = NoFrame
    /\ kind = <<>>
    /\ variation = <<>>
    /\ styled = NoStyler
    /\ csv_data = NoCsv
    /\ extrapolate_data = TRUE
    /\ csv_file = NoFile
    /\ loaded = NothingLoaded
    /\ SessionIdle
    /\ TableObjects
    /\ Top25Idle
    /\ ChartsIdle

NextClassify == ShowTable

SpecClassify == InitClassify /\ [][NextClassify]_vars


-----------------------------------------------------------------------------
(* What the records say, read off df alone *)

Returned == pc \in {"table", "shown", "warned"}

YearsPresent == {df[k].Arrival_Date.y : k \in DOMAIN df}

\* the prices observed for the cell of year y at position p
ObservedPrices(y, p) ==
    LET obs == SelectSeq(df, LAMBDA r :
                   /\ r.Arrival_Date.y = y
                   /\ IsoWeek(r.Arrival_Date) = ColumnWeeks[p + 1].week)
    IN  [k \in DOMAIN obs |-> Price(obs[k], price_type)]

\* the positions of year y for which at least one record was observed
Known(y) ==
    LET weeks == {IsoWeek(df[k].Arrival_Date) :
                     k \in {j \in DOMAIN df : df[j].Arrival_Date.y = y}}
    IN  {p \in 0 .. 47 : ColumnWeeks[p + 1].week \in weeks}

RoundedMean(y, p) ==
    RoundHalfEven(SumSeq(ObservedPrices(y, p)), Len(ObservedPrices(y, p)))

-----------------------------------------------------------------------------
(* C1: a cell for which at least one record was observed holds the rounded   *)
(* mean of those observations from the fill on, through the interpolation    *)
(* of every row, and in the grid that is returned, whatever the number of    *)
(* known cells of its row.                                                   *)
C1_ObservedCellKeepsRoundedMean ==
    /\ pc = "interp" =>
          \A y \in YearsPresent : \A p \in Known(y) :
              price_table.data[y][p] = <<RoundedMean(y, p)>>
    /\ Returned =>
          \A y \in YearsPresent : \A p \in Known(y) :
              grid.data[y][p] = RoundedMean(y, p)

\* a returned grid with a cubic row one of whose cells is the mean of two
\* records that ties between two integers, beside a row with one known cell
C1_Witness ==
    /\ Returned
    /\ \E y \in YearsPresent :
          /\ kind[y] = "cubic"
          /\ \E p \in Known(y) :
                /\ Len(ObservedPrices(y, p)) = 2
                /\ SumSeq(ObservedPrices(y, p)) % 2 = 1
                /\ grid.data[y][p] = RoundedMean(y, p)
    /\ \E y \in YearsPresent : kind[y] = "fill"

(* C2: in a row with exactly one known cell, of value v, every one of the    *)
(* 48 cells of the returned grid equals v.                                   *)
C2_SingleKnownCellFillsRow ==
    Returned =>
        \A y \in YearsPresent :
            Cardinality(Known(y)) = 1 =>
                \A p \in Known(y) : \A q \in 0 .. 47 :
                    grid.data[y][q] = RoundedMean(y, p)

\* a returned row whose only known cell is at position 9, so that cells lie
\* on both sides of it
C2_Witness ==
    /\ Returned
    /\ \E y \in YearsPresent :
          /\ Known(y) = {9}
          /\ grid.data[y][0] = RoundedMean(y, 9)
          /\ grid.data[y][47] = RoundedMean(y, 9)
          /\ RoundedMean(y, 9) # 0

(* C3: a year that is present in the records and has no known cell has 0 in  *)
(* every one of its 48 cells of the returned grid.                           *)
C3_NoKnownCellGivesZeroRow ==
    Returned =>
        \A y \in YearsPresent :
            Known(y) = {} => \A q \in 0 .. 47 : grid.data[y][q] = 0

\* a returned grid with a year whose records all fall in week 25 or week 53,
\* below a year that has known cells
C3_Witness ==
    /\ Returned
    /\ \E y \in YearsPresent :
          /\ Known(y) = {}
          /\ \A q \in 0 .. 47 : grid.data[y][q] = 0
          /\ \E z \in YearsPresent : z < y /\ Known(z) # {}

(* C4 as stated: every cell of the returned grid is a non-negative integer,  *)
(* for every input record set.                                               *)
C4_AllCellsNonNegative ==
    Returned =>
        \A y \in YearsPresent : \A p \in 0 .. 47 : grid.data[y][p] \in Nat

(* C4, amended: every cell of the returned grid is an integer, and a cell is *)
(* negative only where it holds the negative rounded mean of observed        *)
(* prices, in its own observed cell or copied over a row with one known      *)
(* cell; every interpolated and every fallback cell is non-negative, and so  *)
(* is every cell when no observed price is negative.                         *)
C4_NegativeOnlyFromObservedMean ==
    Returned =>
        \A y \in YearsPresent : \A p \in 0 .. 47 :
            /\ grid.data[y][p] \in Int
            /\ grid.data[y][p] < 0 =>
                  \E q \in Known(y) :
                      /\ RoundedMean(y, q) = grid.data[y][p]
                      /\ q = p \/ Cardinality(Known(y)) = 1
            /\ (\A k \in DOMAIN df : Price(df[k], price_type) >= 0) =>
                  grid.data[y][p] >= 0

\* a returned grid built from non-negative prices, in which a fitted value
\* below zero was floored to 0
C4_Witness ==
    /\ Returned
    /\ \A k \in DOMAIN df : Price(df[k], price_type) >= 0
    /\ \E y \in YearsPresent : \E p \in (0 .. 47) \ Known(y) :
          /\ Cardinality(Known(y)) >= 2
          /\ LET xs == ValidPositions([q \in 0 .. 47 |->
                           IF q \in Known(y) THEN <<RoundedMean(y, q)>> ELSE NaN])
                 ys == [k \in DOMAIN xs |-> RoundedMean(y, xs[k])]
             IN  Interp1d(xs, ys, kind[y], p).n < 0
          /\ grid.data[y][p] = 0

(* C5: the returned grid has the 48 columns Jan_W1 .. Dec_W4 in calendar     *)
(* order, one row per distinct year of the records, the rows in ascending    *)
(* year order, and a value in every cell.                                    *)
C5_FixedColumnsOneRowPerYear ==
    Returned =>
        /\ grid.columns =
              <<"Jan_W1", "Jan_W2", "Jan_W3", "Jan_W4",
                "Feb_W1", "Feb_W2", "Feb_W3", "Feb_W4",
                "Mar_W1", "Mar_W2", "Mar_W3", "Mar_W4",
                "Apr_W1", "Apr_W2", "Apr_W3", "Apr_W4",
                "May_W1", "May_W2", "May_W3", "May_W4",
                "Jun_W1", "Jun_W2", "Jun_W3", "Jun_W4",
                "Jul_W1", "Jul_W2", "Jul_W3", "Jul_W4",
                "Aug_W1", "Aug_W2", "Aug_W3", "Aug_W4",
                "Sep_W1", "Sep_W2", "Sep_W3", "Sep_W4",
                "Oct_W1", "Oct_W2", "Oct_W3", "Oct_W4",
                "Nov_W1", "Nov_W2", "Nov_W3", "Nov_W4",
                "Dec_W1", "Dec_W2", "Dec_W3", "Dec_W4">>
        /\ RangeOf(grid.index) = YearsPresent
        /\ Len(grid.index) = Cardinality(YearsPresent)
        /\ \A a, b \in DOMAIN grid.index : a < b => grid.index[a] < grid.index[b]
        /\ DOMAIN grid.data = YearsPresent
        /\ \A y \in YearsPresent :
              /\ DOMAIN grid.data[y] = 0 .. 47
              /\ \A p \in 0 .. 47 : grid.data[y][p] \in Int

\* a returned grid of two rows built from two records only
C5_Witness ==
    /\ Returned
    /\ Len(df) = 2
    /\ Len(grid.index) = 2
    /\ Len(grid.columns) = 48


-----------------------------------------------------------------------------
(* The samples of a row, read off df alone *)

\* the known positions of year y in column order, and their rounded means
KnownXs(y) ==
    LET known == Known(y)
    IN  SelectSeq([k \in 1 .. 48 |-> k - 1], LAMBDA p : p \in known)

KnownYs(y) ==
    LET xs == KnownXs(y)
    IN  <<>> \o [k \in DOMAIN xs |-> RoundedMean(y, xs[k])]

\* max(0, round(f * (1 + j))) for a fitted value f and a draw j
Perturbed(f, j) == Max0(RoundHalfEven(f.n * (j.d + j.n), f.d * j.d))

\* the rows the interpolation loop has passed
Processed == {y \in DOMAIN kind : kind[y] # "pending"}

(* C6: a row with at least 2 known cells is fitted with a cubic exactly when *)
(* it has at least 4 known cells and with a line when it has 2 or 3, and its *)
(* unobserved cells come from that curve; a row with fewer than 2 known      *)
(* cells is not fitted and draws no jitter.                                  *)
C6_CubicIffFourKnown ==
    \A y \in Processed :
        LET n  == Cardinality(Known(y))
            xs == KnownXs(y)
            ys == KnownYs(y)
        IN  /\ kind[y] = "cubic" <=> n >= 4
            /\ n \in {2, 3} => kind[y] = "linear"
            /\ n < 2 =>
                  /\ kind[y] \in {"fill", "none"}
                  /\ \A p \in 0 .. 47 : variation[y][p] = NaN
            /\ n >= 2 =>
                  \A p \in (0 .. 47) \ Known(y) :
                      price_table.data[y][p] =
                          <<Perturbed(IF n >= 4 THEN Interp1dCubic(xs, ys, p)
                                      ELSE Interp1dLinear(xs, ys, p),
                                      variation[y][p][1])>>

\* a table with a row of 4 known cells fitted with a cubic and a row of 2
\* known cells fitted with a line
C6_Witness ==
    /\ \E y \in Processed : Cardinality(Known(y)) = 4 /\ kind[y] = "cubic"
    /\ \E y \in Processed : Cardinality(Known(y)) = 2 /\ kind[y] = "linear"

(* C7: in a row with at least 2 known cells, an unobserved cell at position  *)
(* p ends as max(0, round(f(p) * (1 + j))), f the fitted curve and j the one *)
(* draw made for that cell; before the first and after the last known        *)
(* position f is the same function, not clamped: with two known cells it is  *)
(* the line through them at every position.  No draw is made for an observed *)
(* cell.                                                                     *)
C7_UnobservedCellIsJitteredFit ==
    \A y \in Processed :
        kind[y] \in {"cubic", "linear"} =>
            LET xs == KnownXs(y)
                ys == KnownYs(y)
            IN  /\ \A p \in Known(y) : variation[y][p] = NaN
                /\ \A p \in (0 .. 47) \ Known(y) :
                      /\ Len(variation[y][p]) = 1
                      /\ price_table.data[y][p] =
                            <<Perturbed(Interp1d(xs, ys, kind[y], p),
                                        variation[y][p][1])>>
                      /\ Len(xs) = 2 =>
                            price_table.data[y][p] =
                                <<Perturbed(
                                    [n |-> ys[1] * (xs[2] - xs[1])
                                           + (ys[2] - ys[1]) * (p - xs[1]),
                                     d |-> xs[2] - xs[1]],
                                    variation[y][p][1])>>
                      /\ Returned => grid.data[y][p] = price_table.data[y][p][1]

\* a returned row with two known cells in which a cell after the last known
\* position holds a jittered value above both known values
C7_Witness ==
    /\ Returned
    /\ \E y \in Processed :
          /\ kind[y] = "linear"
          /\ Cardinality(Known(y)) = 2
          /\ \E p \in 0 .. 47 :
                /\ \A q \in Known(y) : q < p /\ RoundedMean(y, q) < grid.data[y][p]
                /\ variation[y][p] # NaN
                /\ variation[y][p][1].n # 0

\* Scenario A: the only year y has known cells at positions 0 and 9 alone,
\* with the values 100 and 140
ScenarioA(y) ==
    /\ YearsPresent = {y}
    /\ Known(y) = {0, 9}
    /\ RoundedMean(y, 0) = 100
    /\ RoundedMean(y, 9) = 140

(* C8 as stated: in Scenario A the value of each cell at positions 1..8      *)
(* before rounding differs from the linear interpolant 100 + 40p/9 by at     *)
(* most 3% of it.                                                            *)
C8_WithinThreePercent ==
    \A y \in Processed :
        ScenarioA(y) =>
            \A p \in 1 .. 8 :
                LET j == variation[y][p][1]
                    L == 900 + 40 * p
                IN  100 * Abs(L * j.n) <= 3 * L * j.d

(* C8, amended: in Scenario A the row is fitted with a line, cells 0 and 9   *)
(* hold 100 and 140, and each cell at positions 1..8 is                      *)
(* max(0, round((100 + 40p/9) * (1 + j))) for its own draw j of              *)
(* normal(0, 0.03), a draw that is not bounded by 3%.                        *)
C8_ScenarioAJitteredLine ==
    \A y \in Processed :
        ScenarioA(y) =>
            /\ kind[y] = "linear"
            /\ price_table.data[y][0] = <<100>>
            /\ price_table.data[y][9] = <<140>>
            /\ \A p \in 1 .. 8 :
                  /\ variation[y][p] # NaN
                  /\ LET j == variation[y][p][1]
                     IN  price_table.data[y][p] =
                            <<Max0(RoundHalfEven((900 + 40 * p) * (j.d + j.n),
                                                 9 * j.d))>>
                  /\ Returned => grid.data[y][p] = price_table.data[y][p][1]

\* Scenario A returned with a cell among 1..8 whose draw is beyond 3%
C8_Witness ==
    /\ Returned
    /\ \E y \in Processed :
          /\ ScenarioA(y)
          /\ \E p \in 1 .. 8 :
                /\ 100 * Abs(variation[y][p][1].n) > 3 * variation[y][p][1].d
                /\ grid.data[y][p] # RoundHalfEven(900 + 40 * p, 9)


-----------------------------------------------------------------------------
(* Which weeks reach the table *)

\* the week numbers in the 5th or 6th slot of a month's window
UnusedSlotWeeks ==
    {w \in 1 .. 53 :
        \E m \in DOMAIN weeks_per_month :
            \E k \in DOMAIN weeks_per_month[m] :
                k > WeeksShown /\ weeks_per_month[m][k] = w}

\* the week numbers 1..53 that are in no month's window
OutsideWindows ==
    {w \in 1 .. 53 :
        \A m \in DOMAIN weeks_per_month : w \notin RangeOf(weeks_per_month[m])}

\* the week numbers 1..53 that no column is bound to
UnboundWeeks ==
    {w \in 1 .. 53 : \A c \in DOMAIN ColumnWeeks : ColumnWeeks[c].week # w}

\* df without its k-th record
Without(d, k) == [j \in 1 .. (Len(d) - 1) |-> IF j < k THEN d[j] ELSE d[j + 1]]

\* the table of observed means is complete and no row is interpolated yet
JustFilled == pc = "interp" /\ i = 1

\* the filled table is what it would be had the k-th record not been there
ContributesNowhere(k) ==
    LET y    == df[k].Arrival_Date.y
        rest == DfWork(Without(df, k))
    IN  \A p \in 0 .. 47 :
            price_table.data[y][p] = FilledCell(rest, y, p, price_type)

(* C9 as stated: a record whose ISO week is in the unused 5th or 6th slot of *)
(* a month's window, or outside all windows, contributes to no cell.         *)
C9_UnusedSlotWeeksExcluded ==
    JustFilled =>
        \A k \in DOMAIN df :
            IsoWeek(df[k].Arrival_Date) \in UnusedSlotWeeks \cup OutsideWindows
                => ContributesNowhere(k)

(* C9, amended: the ISO weeks that are excluded are those no column is bound *)
(* to, exactly 25, 38, 51, 52 and 53, and a record of such a week            *)
(* contributes to no cell; a week in the 5th or 6th slot of one window that  *)
(* is among the first four of the next window (5, 9, 13, 17, 21, 26, 30, 34, *)
(* 39, 43, 47) is bound to that next month's first column, and a record of   *)
(* it makes that cell known.                                                 *)
C9_UnboundWeeksExcluded ==
    /\ UnboundWeeks = {25, 38, 51, 52, 53}
    /\ UnusedSlotWeeks \ UnboundWeeks =
          {5, 9, 13, 17, 21, 26, 30, 34, 39, 43, 47}
    /\ JustFilled =>
          \A k \in DOMAIN df :
              LET w == IsoWeek(df[k].Arrival_Date)
                  y == df[k].Arrival_Date.y
              IN  /\ w \in {25, 38, 51, 52, 53} => ContributesNowhere(k)
                  /\ w \notin {25, 38, 51, 52, 53} =>
                        \E p \in 0 .. 47 :
                            /\ ColumnWeeks[p + 1].week = w
                            /\ price_table.data[y][p] # NaN
                  /\ w \in UnusedSlotWeeks \ UnboundWeeks =>
                        \E m \in 1 .. 11 :
                            /\ w \in RangeOf(weeks_per_month[m])
                            /\ ColumnWeeks[4 * m + 1].week = w
                            /\ price_table.data[y][4 * m] # NaN

\* a filled table built from records of weeks 25 and 53, which reach no cell,
\* and a record of week 5, which makes Feb_W1 known
C9_Witness ==
    /\ JustFilled
    /\ \E a, b, c \in DOMAIN df :
          /\ IsoWeek(df[a].Arrival_Date) = 25 /\ ContributesNowhere(a)
          /\ IsoWeek(df[b].Arrival_Date) = 53 /\ ContributesNowhere(b)
          /\ IsoWeek(df[c].Arrival_Date) = 5
          /\ columns[5] = "Feb_W1"
          /\ price_table.data[df[c].Arrival_Date.y][4] # NaN

(* C10: when the grid has a positive value, each cell is classified by the   *)
(* first rule that matches, in the order value = 0: no-data; <= p25:         *)
(* very-low; <= p50: low; <= p75: medium; <= p90: high; else very-high, the  *)
(* thresholds being the percentiles of the positive values; a value equal to *)
(* a threshold falls in the lower bucket.                                    *)
C10_FirstMatchingBucket ==
    (pc = "shown" /\ \E c \in FrameCells(grid) : CellValue(grid, c) > 0) =>
        LET a   == PositiveValues(grid)
            p25 == Percentile(a, 25)
            p50 == Percentile(a, 50)
            p75 == Percentile(a, 75)
            p90 == Percentile(a, 90)
        IN  \A c \in FrameCells(grid) :
                LET v == CellValue(grid, c)
                IN  styled.css[c] =
                        IF v = 0 THEN "no-data"
                        ELSE IF v * p25.d <= p25.n THEN "very-low"
                        ELSE IF v * p50.d <= p50.n THEN "low"
                        ELSE IF v * p75.d <= p75.n THEN "medium"
                        ELSE IF v * p90.d <= p90.n THEN "high"
                        ELSE "very-high"

\* a shown grid in which all six buckets occur and a cell whose value equals
\* the 75th percentile, above the 50th, is classified medium
C10_Witness ==
    /\ pc = "shown"
    /\ {styled.css[c] : c \in FrameCells(grid)} =
          {"no-data", "very-low", "low", "medium", "high", "very-high"}
    /\ LET a   == PositiveValues(grid)
           p50 == Percentile(a, 50)
           p75 == Percentile(a, 75)
       IN  \E c \in FrameCells(grid) :
               /\ CellValue(grid, c) * p75.d = p75.n
               /\ CellValue(grid, c) * p50.d > p50.n
               /\ styled.css[c] = "medium"

-----------------------------------------------------------------------------
(* Scenario B *)

\* the positive values of the grid are exactly 50, 80, 120, 200 and 400
ScenarioB ==
    SortSeq(PositiveValues(grid), LAMBDA a, b : a < b)
        = <<50, 80, 120, 200, 400>>

\* the buckets given to the cells of the shown grid that hold v
BucketsOf(v) ==
    {styled.css[c] : c \in {e \in FrameCells(grid) : CellValue(grid, e) = v}}

(* C11 as stated: in Scenario B, 50 classifies very-low, 120 classifies      *)
(* medium and 400 classifies very-high.                                      *)
C11_ScenarioBMedianIsMedium ==
    (pc = "shown" /\ ScenarioB) =>
        /\ BucketsOf(50) = {"very-low"}
        /\ BucketsOf(120) = {"medium"}
        /\ BucketsOf(400) = {"very-high"}

(* C11, amended: in Scenario B the thresholds are p25 = 80, p50 = 120,       *)
(* p75 = 200 and p90 = 320; 50 classifies very-low and 400 very-high, and    *)
(* 120, which equals the median and so meets the inclusive bound of the low  *)
(* bucket, classifies low; 80 classifies very-low and 200 medium.            *)
C11_ScenarioBMedianIsLow ==
    (pc = "shown" /\ ScenarioB) =>
        /\ Percentile(PositiveValues(grid), 25) = [n |-> 8000, d |-> 100]
        /\ Percentile(PositiveValues(grid), 50) = [n |-> 12000, d |-> 100]
        /\ Percentile(PositiveValues(grid), 75) = [n |-> 20000, d |-> 100]
        /\ Percentile(PositiveValues(grid), 90) = [n |-> 32000, d |-> 100]
        /\ BucketsOf(50) = {"very-low"}
        /\ BucketsOf(80) = {"very-low"}
        /\ BucketsOf(120) = {"low"}
        /\ BucketsOf(200) = {"medium"}
        /\ BucketsOf(400) = {"very-high"}
        /\ BucketsOf(0) = {"no-data"}

\* Scenario B classified, its five values in the first five cells in
\* descending order
C11_Witness ==
    /\ pc = "shown"
    /\ ScenarioB
    /\ grid.data[2023][0] = 400
    /\ grid.data[2023][4] = 50
    /\ styled.css[<<2023, 2>>] = "low"

-----------------------------------------------------------------------------
(* C12: when the shown grid has no strictly positive value, every cell is    *)
(* classified no-data and presented as a zero cell of a grid with positive   *)
(* values is: the no-data style and the text '-'.                            *)
C12_NoPositiveValueAllNoData ==
    (pc = "shown" /\ Len(PositiveValues(grid)) = 0) =>
        \A c \in FrameCells(grid) :
            /\ styled.css[c] = "no-data"
            /\ styled.text[c] = "-"

-----------------------------------------------------------------------------
(* C14, Scenario C: with zero cleaned records create_weekly_price_table      *)
(* builds and returns a table of 48 columns and zero rows, passing through   *)
(* no row; the run ends in a warning, that of line 442 when run_dashboard    *)
(* finds crop_df empty or that of line 439 when the returned table is        *)
(* empty; nothing is styled and no download text is made.                    *)
C14_NoRecordsNoTable ==
    df = <<>> =>
        /\ pc \in {"start", "interp", "table", "warned", "nocrop"}
        /\ pc = "start" => ENABLED WarnNoCrop /\ ENABLED FillTable
        /\ pc = "interp" =>
              /\ years = <<>>
              /\ i = 1
              /\ price_table.index = <<>>
              /\ price_table.columns = columns
              /\ ENABLED ReturnTable
              /\ ~ENABLED InterpolateYear
        /\ pc \in {"table", "warned"} =>
              /\ grid.index = <<>>
              /\ grid.columns = columns
              /\ Len(grid.columns) = 48
              /\ DOMAIN grid.data = {}
        /\ pc = "table" => ENABLED WarnNoTable /\ ~ENABLED ShowTable
        /\ styled = NoStyler
        /\ csv_data = NoCsv

\* the run on no record has ended in the warning of line 439, the table
\* returned having 48 columns and no row
C14_Witness ==
    /\ df = <<>>
    /\ pc = "warned"
    /\ grid.index = <<>>
    /\ Len(grid.columns) = 48
    /\ styled = NoStyler
    /\ csv_data = NoCsv

-----------------------------------------------------------------------------
(* Reading the download text back *)

DigitValue(c) == CHOOSE d \in 0 .. 9 : DecimalChars[d + 1] = c

IsPlainNat(chars) ==
    /\ Len(chars) >= 1
    /\ \A k \in DOMAIN chars : chars[k] \in RangeOf(DecimalChars)

RECURSIVE ParseNat(_)
ParseNat(chars) ==
    IF Len(chars) = 1 THEN DigitValue(chars[1])
    ELSE 10 * ParseNat(SubSeq(chars, 1, Len(chars) - 1))
         + DigitValue(chars[Len(chars)])

ParseInt(chars) ==
    IF chars[1] = "-" THEN 0 - ParseNat(Tail(chars)) ELSE ParseNat(chars)

\* the header after its first field is the 48 labels in calendar order, and
\* there is one line per year of the grid
CsvShape ==
    /\ Len(csv_data.header) = 49
    /\ \A k \in 1 .. 48 : csv_data.header[k + 1] = <<columns[k]>>
    /\ Len(csv_data.rows) = Len(grid.index)
    /\ \A r \in DOMAIN csv_data.rows : Len(csv_data.rows[r]) = 49

\* parsing the lines back gives the years and the integer matrix of the grid
CsvRoundTrips ==
    \A r \in DOMAIN csv_data.rows :
        /\ ParseInt(csv_data.rows[r][1]) = grid.index[r]
        /\ \A p \in 0 .. 47 :
              ParseInt(csv_data.rows[r][p + 2]) = grid.data[grid.index[r]][p]

-----------------------------------------------------------------------------
-----------------------------------------------------------------------------
(* What the file says, read off csv_file alone *)

\* the row of the file has a date that parses and all three prices
ValidFileRow(r) ==
    /\ Len(r.Arrival_Date) = 1
    /\ r.Arrival_Date[1].parses
    /\ Len(r.Min_Price) = 1
    /\ Len(r.Max_Price) = 1
    /\ Len(r.Modal_Price) = 1

ValidLabels == {k \in DOMAIN csv_file.rows : ValidFileRow(csv_file.rows[k])}

\* the rows stored for the market, none if the market is not stored
Stored ==
    IF MarketName \in DOMAIN loaded.market_data
    THEN loaded.market_data[MarketName] ELSE <<>>

StoredLabels == {Stored[k].row : k \in DOMAIN Stored}

LoadEnded == pc \in {"loaded", "load_warned", "skipped"}

(* C17 as stated: when the load of a file has ended, the rows stored are     *)
(* exactly the rows with a date that parses and all three prices, and a row  *)
(* that was dropped has caused no failure.                                   *)
C17_ExactlyValidRecordsKept ==
    LoadEnded =>
        /\ StoredLabels = ValidLabels
        /\ pc = "load_warned" =>
              SortedRaises({csv_file.rows[k].Commodity : k \in ValidLabels})

(* C17, amended: for a file that has the five required columns, the rows     *)
(* stored are exactly the rows with a date that parses and all three prices, *)
(* each with the fields it had in the file, and a dropped row causes no      *)
(* failure: the load raises exactly when the crops of the kept rows cannot   *)
(* be sorted.  A file that lacks a required column is passed over whole and  *)
(* none of its rows is stored.                                               *)
C17_ValidRecordsKeptWhenColumnsPresent ==
    LoadEnded =>
        /\ pc = "skipped" <=> ~(RequiredColumns \subseteq csv_file.columns)
        /\ pc = "skipped" => loaded = NothingLoaded
        /\ pc # "skipped" =>
              /\ StoredLabels = ValidLabels
              /\ Len(Stored) = Cardinality(ValidLabels)
              /\ \A k \in DOMAIN Stored :
                    LET r == csv_file.rows[Stored[k].row]
                    IN  /\ Stored[k].Arrival_Date =
                              <<[y |-> r.Arrival_Date[1].y,
                                 m |-> r.Arrival_Date[1].m,
                                 d |-> r.Arrival_Date[1].d]>>
                        /\ Stored[k].Min_Price = r.Min_Price
                        /\ Stored[k].Max_Price = r.Max_Price
                        /\ Stored[k].Modal_Price = r.Modal_Price
                        /\ Stored[k].Commodity = r.Commodity
              /\ pc = "load_warned" <=>
                    SortedRaises({csv_file.rows[k].Commodity :
                                     k \in ValidLabels})

\* a file of three rows, one whose date does not parse, one that lacks a
\* price and one that is valid, loaded without a warning with the valid row
\* alone stored
C17_Witness ==
    /\ pc = "loaded"
    /\ Len(csv_file.rows) = 3
    /\ \E a, b \in DOMAIN csv_file.rows :
          /\ csv_file.rows[a].Arrival_Date = <<BadDateText>>
          /\ csv_file.rows[b].Max_Price = NaN
          /\ ValidFileRow([csv_file.rows[b] EXCEPT !.Max_Price = <<0>>])
    /\ Cardinality(ValidLabels) = 1
    /\ Len(Stored) = 1

-----------------------------------------------------------------------------
\* the rows stored are in ascending order of date
StoredAscending ==
    \A j, k \in DOMAIN Stored :
        j < k => DateKey(Stored[j]) <= DateKey(Stored[k])

(* C18 as stated: the rows stored are ascending by date, and rows of equal   *)
(* dates are in the order they had in the file.                              *)
C18_SortedStable ==
    pc \in {"loaded", "load_warned"} =>
        /\ StoredAscending
        /\ \A j, k \in DOMAIN Stored :
              (j < k /\ DateKey(Stored[j]) = DateKey(Stored[k]))
                  => Stored[j].row < Stored[k].row

(* C18, amended: the rows stored are the kept rows, each once, in ascending  *)
(* order of date; the order of rows of equal dates is not fixed, the sort    *)
(* being the default quicksort, which is not stable.                         *)
C18_SortedAscending ==
    pc \in {"loaded", "load_warned"} =>
        /\ StoredAscending
        /\ StoredLabels = ValidLabels
        /\ \A j, k \in DOMAIN Stored : Stored[j].row = Stored[k].row => j = k

\* three rows stored: two of the same date, the later one of the file first,
\* and after them a row of a later date that came first in the file
C18_Witness ==
    /\ pc = "loaded"
    /\ Len(Stored) = 3
    /\ DateKey(Stored[1]) = DateKey(Stored[2])
    /\ Stored[1].row > Stored[2].row
    /\ DateKey(Stored[2]) < DateKey(Stored[3])
    /\ Stored[3].row = 1

-----------------------------------------------------------------------------
(* The order of the buckets *)

BucketRank(b) ==
    CASE b = "very-low"  -> 1
      [] b = "low"       -> 2
      [] b = "medium"    -> 3
      [] b = "high"      -> 4
      [] b = "very-high" -> 5

PositiveCells == {c \in FrameCells(grid) : CellValue(grid, c) > 0}

(* C26: in a shown grid, for any two positive cells a <= b the bucket of a   *)
(* is not above the bucket of b in the order very-low < low < medium < high  *)
(* < very-high, and a cell that holds the smallest positive value is         *)
(* very-low, so that a grid whose positive values are all equal has every    *)
(* positive cell very-low.                                                   *)
C26_ClassificationMonotone ==
    pc = "shown" =>
        /\ \A c, e \in PositiveCells :
              CellValue(grid, c) <= CellValue(grid, e) =>
                  BucketRank(styled.css[c]) <= BucketRank(styled.css[e])
        /\ \A c \in PositiveCells :
              (\A e \in PositiveCells : CellValue(grid, c) <= CellValue(grid, e))
                  => styled.css[c] = "very-low"
        /\ Cardinality({CellValue(grid, c) : c \in PositiveCells}) = 1 =>
              \A c \in PositiveCells : styled.css[c] = "very-low"

\* a shown grid of four distinct positive values, two of which share the
\* lowest bucket while the largest is very-high
C26_Witness ==
    /\ pc = "shown"
    /\ Cardinality({CellValue(grid, c) : c \in PositiveCells}) >= 4
    /\ \E c, e \in PositiveCells :
          /\ CellValue(grid, c) < CellValue(grid, e)
          /\ styled.css[c] = "very-low"
          /\ styled.css[e] = "very-low"
    /\ \E c \in PositiveCells : styled.css[c] = "very-high"

-----------------------------------------------------------------------------
(* C28: when load_market_data has ended, every market listed in              *)
(* available_markets has an entry in market_data and an entry in             *)
(* market_crops, also when preparing the file raised an exception part-way.  *)
C28_ListedMarketHasDataAndCrops ==
    LoadEnded =>
        \A k \in DOMAIN loaded.available_markets :
            /\ loaded.available_markets[k] \in DOMAIN loaded.market_data
            /\ loaded.available_markets[k] \in DOMAIN loaded.market_crops

-----------------------------------------------------------------------------
(* Records at the turn of a year *)

\* the filled row of year z is what it would be had the k-th record not been
\* there
RowAsWithout(k, z) ==
    LET rest == DfWork(Without(df, k))
    IN  \A p \in 0 .. 47 :
            price_table.data[z][p] = FilledCell(rest, z, p, price_type)

(* C23: a record contributes to the row of its calendar year, in the column  *)
(* bound to its ISO week number, and to no other row; the ISO year is not    *)
(* used.  A December record whose ISO week is 1 is averaged into Jan_W1 of   *)
(* its own calendar year, and a January record whose ISO week is 52 or 53    *)
(* contributes to no cell although its year has a row.                       *)
C23_CalendarYearIsoWeek ==
    JustFilled =>
        \A k \in DOMAIN df :
            LET d == df[k].Arrival_Date
                w == IsoWeek(d)
            IN  /\ d.y \in RangeOf(price_table.index)
                /\ \A p \in 0 .. 47 :
                      ColumnWeeks[p + 1].week = w =>
                          price_table.data[d.y][p] = <<RoundedMean(d.y, p)>>
                /\ \A z \in YearsPresent \ {d.y} : RowAsWithout(k, z)
                /\ (d.m = 12 /\ w = 1) =>
                      /\ columns[1] = "Jan_W1"
                      /\ price_table.data[d.y][0] = <<RoundedMean(d.y, 0)>>
                      /\ ~RowAsWithout(k, d.y)
                /\ (d.m = 1 /\ w >= 52) => RowAsWithout(k, d.y)

\* a filled table in which Jan_W1 of 2019 is the mean of a record of 2 January
\* 2019 and a record of 30 December 2019, and the row of 2021 is empty though
\* a record is dated 1 January 2021; no row is made for 2020
C23_Witness ==
    /\ JustFilled
    /\ \E a, b, c \in DOMAIN df :
          /\ df[a].Arrival_Date = [y |-> 2019, m |-> 1, d |-> 2]
          /\ df[b].Arrival_Date = [y |-> 2019, m |-> 12, d |-> 30]
          /\ IsoWeek(df[b].Arrival_Date) = 1
          /\ Len(ObservedPrices(2019, 0)) = 2
          /\ price_table.data[2019][0] = <<RoundedMean(2019, 0)>>
          /\ df[c].Arrival_Date = [y |-> 2021, m |-> 1, d |-> 1]
          /\ IsoWeek(df[c].Arrival_Date) = 53
          /\ \A p \in 0 .. 47 : price_table.data[2021][p] = NaN
    /\ 2020 \notin RangeOf(price_table.index)

-----------------------------------------------------------------------------
(* Columns and weeks *)

\* the cells (year, position) whose selection at lines 134 and 143 takes the
\* k-th record
CellsCounting(k) ==
    LET r == DfWork(df)[k]
    IN  {c \in RangeOf(years) \X Positions :
            r.Year = c[1] /\ r.Week_of_Year = ColumnWeeks[c[2] + 1].week}

(* C24: there are 48 columns, each bound to one ISO week number, and the     *)
(* week numbers are strictly increasing in column order, so no week is bound *)
(* to two columns although the month windows overlap; the week numbers of    *)
(* 1..53 bound to no column are exactly 25, 38, 51, 52 and 53; a record is   *)
(* counted in one cell, or in none when its week is one of those five, and   *)
(* the filled table has no more known cells than there are records.          *)
C24_OneWeekPerColumn ==
    /\ Len(ColumnWeeks) = 48
    /\ \A a, b \in DOMAIN ColumnWeeks :
          a < b => ColumnWeeks[a].week < ColumnWeeks[b].week
    /\ {w \in 1 .. 53 : \A c \in DOMAIN ColumnWeeks : ColumnWeeks[c].week # w}
          = {25, 38, 51, 52, 53}
    /\ JustFilled =>
          /\ \A k \in DOMAIN df :
                Cardinality(CellsCounting(k)) =
                    IF IsoWeek(df[k].Arrival_Date) \in {25, 38, 51, 52, 53}
                    THEN 0 ELSE 1
          /\ Cardinality({c \in RangeOf(years) \X Positions :
                             price_table.data[c[1]][c[2]] # NaN}) <= Len(df)

\* a filled table with a record of ISO week 5, a week that is in the window
\* of January and in the window of February: it is counted in Feb_W1 alone
C24_Witness ==
    /\ JustFilled
    /\ \E k \in DOMAIN df :
          /\ IsoWeek(df[k].Arrival_Date) = 5
          /\ 5 \in RangeOf(weeks_per_month[1])
          /\ 5 \in RangeOf(weeks_per_month[2])
          /\ CellsCounting(k) = {<<df[k].Arrival_Date.y, 4>>}
          /\ columns[5] = "Feb_W1"
          /\ price_table.data[df[k].Arrival_Date.y][4] # NaN

-----------------------------------------------------------------------------
(* Where the random source is read *)

\* the cells that are given by the records alone: an observed cell holds its
\* rounded mean, a row with one known cell holds that mean everywhere, a row
\* with no known cell holds nothing, and no draw was made for any of them
DrawFreeCells ==
    \A y \in Processed :
        LET n == Cardinality(Known(y))
        IN  /\ \A p \in Known(y) :
                  /\ variation[y][p] = NaN
                  /\ price_table.data[y][p] = <<RoundedMean(y, p)>>
                  /\ Returned => grid.data[y][p] = RoundedMean(y, p)
            /\ n = 1 =>
                  \A p \in 0 .. 47 : \A q \in Known(y) :
                      /\ variation[y][p] = NaN
                      /\ price_table.data[y][p] = <<RoundedMean(y, q)>>
                      /\ Returned => grid.data[y][p] = RoundedMean(y, q)
            /\ n = 0 =>
                  \A p \in 0 .. 47 :
                      /\ variation[y][p] = NaN
                      /\ price_table.data[y][p] = NaN
                      /\ Returned => grid.data[y][p] = 0
            /\ n >= 2 =>
                  \A p \in (0 .. 47) \ Known(y) : variation[y][p] # NaN

\* the pass over a row advances the generator by one draw per unobserved
\* cell when the row has at least 2 known cells, and not at all otherwise
DrawsOnlyForFittedRow ==
    \A y \in DOMAIN kind :
        (kind[y] = "pending" /\ kind'[y] # "pending") =>
            rng' = (rng + (IF Cardinality(Known(y)) >= 2
                           THEN 48 - Cardinality(Known(y)) ELSE 0))
                       % Len(Normal003)

(* C25: the random source reaches only the unobserved cells of rows with at  *)
(* least 2 known cells: an observed cell, every cell of a row with exactly   *)
(* one known cell and every cell of a row with no known cell hold a value    *)
(* given by the records alone, whatever the state of the generator, and the  *)
(* pass over such a row makes no draw.                                       *)
C25_JitterOnlyInFittedRows == []DrawFreeCells /\ [][DrawsOnlyForFittedRow]_vars

\* a returned grid with a row of 2 known cells in which a cell was moved by
\* its draw, a row with one known cell and a row with none
C25_Witness ==
    /\ Returned
    /\ \E y \in Processed :
          /\ Cardinality(Known(y)) = 2
          /\ \E p \in (0 .. 47) \ Known(y) :
                /\ variation[y][p] # NaN
                /\ variation[y][p][1].n # 0
                /\ grid.data[y][p] #
                      RoundHalfEven(
                          Interp1d(KnownXs(y), KnownYs(y), kind[y], p).n,
                          Interp1d(KnownXs(y), KnownYs(y), kind[y], p).d)
    /\ \E y \in Processed : Cardinality(Known(y)) = 1 /\ kind[y] = "fill"
    /\ \E y \in Processed : Cardinality(Known(y)) = 0 /\ kind[y] = "none"

-----------------------------------------------------------------------------
(* C27: market data is loaded at most once per session. Before the load the  *)
(* flag data_loaded is unset and load_market_data has not been called; once  *)
(* the flag is set it stays set and load_market_data is not called again, so *)
(* every later run of a session whose load found no market goes from the     *)
(* flag test straight to the error 'No market data found' and st.stop().     *)

DataLoaded == "data_loaded" \in DOMAIN session_state /\ session_state.data_loaded

LoadedOnce ==
    /\ load_calls <= 1
    /\ DataLoaded => load_calls = 1
    /\ runs >= 2 => DataLoaded
    /\ (runs >= 2 /\ session_state.available_markets = <<>>) =>
          /\ pc \in {"script", "run", "markets", "stopped"}
          /\ pc = "markets" =>
                (ENABLED StopNoMarkets /\ ~ENABLED SelectCrop
                                       /\ ~ENABLED WarnNoCrops)

LoadOnlyWhenFlagUnset ==
    /\ DataLoaded => (session_state' = session_state /\ load_calls' = load_calls)
    /\ load_calls' # load_calls => (~DataLoaded /\ pc = "run" /\ pc' = "read")

C27_LoadAtMostOncePerSession == []LoadedOnce /\ [][LoadOnlyWhenFlagUnset]_vars

C27_Witness ==
    /\ runs = MaxRuns
    /\ pc = "stopped"
    /\ load_calls = 1
    /\ DataLoaded
    /\ session_state.available_markets = <<>>

-----------------------------------------------------------------------------
(* C22: the loaded per-market records are never changed after the load. The  *)
(* selection of run_dashboard and create_weekly_price_table work on objects  *)
(* of their own, so after any selections and builds session_state's          *)
(* market_data holds the records and the columns it held right after the     *)
(* load, and Year, Month and Week_of_Year are columns of df_work alone.      *)

StoredFrameUntouched ==
    /\ DataLoaded => session_state.market_data = loaded.market_data
    /\ "stored" \in DOMAIN heap =>
          /\ heap["stored"] = csv_file.columns
          /\ heap["stored"] \cap WorkColumns = {}
    /\ refs.crop_df # NoObject =>
          /\ refs.crop_df # "stored"
          /\ heap[refs.crop_df] = csv_file.columns
    /\ refs.df_work # NoObject =>
          /\ refs.df_work \notin {"stored", refs.crop_df}
          /\ WorkColumns \subseteq heap[refs.df_work]

StoredFrameKept ==
    /\ DataLoaded => session_state'.market_data = session_state.market_data
    /\ ("stored" \in DOMAIN heap /\ pc # "read") =>
          ("stored" \in DOMAIN heap' /\ heap'["stored"] = heap["stored"])

C22_LoadedRecordsNeverMutated ==
    []StoredFrameUntouched /\ [][StoredFrameKept]_vars

C22_Witness ==
    /\ runs >= 2
    /\ builds # <<>>
    /\ pc = "shown"
    /\ refs.df_work = "work_copy"
    /\ "Year" \in heap[refs.df_work]
    /\ "Year" \notin heap["stored"]
    /\ session_state.market_data # <<>>

-----------------------------------------------------------------------------
(* C21: the grid is a function of the records, the price type and the draws  *)
(* of the random source. Of two calls of create_weekly_price_table in one    *)
(* session with the same records and price type, those that received the     *)
(* same draws return the same grid, and those that did not return grids of   *)
(* the same years and columns that differ at most in unobserved cells of     *)
(* rows with at least 2 known cells.                                         *)

SameInputs(b) == b.df = df /\ b.price_type = price_type

DiffersFrom(b) == {c \in FrameCells(grid) : CellValue(b.grid, c) # CellValue(grid, c)}

C21_GridFunctionOfRecordsTypeAndDraws ==
    Returned =>
        \A k \in DOMAIN builds :
            SameInputs(builds[k]) =>
                /\ builds[k].grid.index = grid.index
                /\ builds[k].grid.columns = grid.columns
                /\ builds[k].variation = variation => builds[k].grid = grid
                /\ \A c \in DiffersFrom(builds[k]) :
                      /\ c[2] \notin Known(c[1])
                      /\ Cardinality(Known(c[1])) >= 2

\* the third build of a session from the same records and price type: the
\* first received the same draws and gave the same grid, the second received
\* other draws and gave a grid that differs
C21_Witness ==
    /\ Returned
    /\ Len(builds) = 2
    /\ SameInputs(builds[1])
    /\ SameInputs(builds[2])
    /\ builds[1].variation = variation
    /\ builds[1].grid = grid
    /\ builds[2].variation # variation
    /\ DiffersFrom(builds[2]) # {}

-----------------------------------------------------------------------------
(* C29: in the report of the top-25 analysis the crop on the line 'Highest   *)
(* priced crop' is a crop of the greatest average modal price among the      *)
(* selected top crops.                                                       *)
C29_HighestPricedLineIsMaxAverage ==
    pc = "reported" =>
        \E k \in DOMAIN top_crops :
            /\ report.highest = << top_crops[k].Commodity >>
            /\ \A j \in DOMAIN top_crops :
                  top_crops[j].Avg_Modal_Price <= top_crops[k].Avg_Modal_Price

-----------------------------------------------------------------------------
(* C30: in create_price_charts_from_excel_files a failure on a sheet or on a *)
(* file never ends the run: when the function returns, every file that could *)
(* not be opened and every sheet that failed has an entry in                 *)
(* processing_errors, every sheet that can be charted has its chart saved,   *)
(* total_charts is the number of sheets with a saved chart, and the result   *)
(* is True exactly when a chart was created.                                 *)

SheetsOfRun ==
    UNION {{<<f, k>> : k \in DOMAIN excel_files[f].sheet_names} :
              f \in {g \in DOMAIN excel_files : excel_files[g].opens}}

SheetKind(s) == excel_files[s[1]].sheet_names[s[2]]

Recorded(file, sheet) ==
    \E k \in DOMAIN processing_errors :
        /\ processing_errors[k].file = file
        /\ processing_errors[k].sheet = sheet

FilesRecorded ==
    \A f \in DOMAIN excel_files : ~excel_files[f].opens => Recorded(f, NaN)

SheetsRecorded(failures) ==
    \A s \in SheetsOfRun : SheetKind(s) \in failures => Recorded(s[1], <<s[2]>>)

AllProcessed ==
    /\ file_no = Len(excel_files)
    /\ \A s \in SheetsOfRun : SheetKind(s) = "chart" => s \in saved_charts

ChartsCounted ==
    /\ total_charts = Cardinality(saved_charts)
    /\ result = << total_charts > 0 >>

C30_FailuresRecordedRunContinues ==
    (pc = "charts_done" /\ excel_files # <<>>) =>
        /\ FilesRecorded
        /\ SheetsRecorded({"read_raises", "missing_columns", "chart_raises"})
        /\ AllProcessed
        /\ ChartsCounted

=============================================================================
